---- MODULE Spec2Model ----
(***************************************************************************)
(* BufferVault: the encrypted vault (storage/vault.rs), its container      *)
(* codec (storage/format.rs) and the cryptographic primitives it is built  *)
(* on (crypto/sha256.rs, crypto/pbkdf2.rs, crypto/ghash.rs,                 *)
(* crypto/aes_gcm.rs), modelled on bytes.                                   *)
(*                                                                         *)
(* A byte is an integer in 0..255 and a byte string a sequence of bytes.   *)
(* TLC's integers are 32-bit signed, so a u32 is held as its 4 big-endian  *)
(* bytes and a u64 as its 8 big-endian bytes; wrapping arithmetic is done   *)
(* on the bytes with an explicit carry.                                     *)
(***************************************************************************)
EXTENDS Integers, Sequences, FiniteSets, TLC

VARIABLES
  disk,     \* the file system: the vault path and the temporary path
  pc,       \* control point of the running save_vault / load_vault call
  call,     \* arguments and locals of the running call
  result,   \* what the last finished call returned
  steps,    \* the stages the running load_vault call has executed, in order
  saved,    \* history: the arguments of the save_vault call that wrote the vault file
  gcm,      \* the running aes_gcm_encrypt / aes_gcm_decrypt call
  run       \* the running call of a function that is studied on its own

vars == <<disk, pc, call, result, steps, saved, gcm, run>>

-----------------------------------------------------------------------------
(* Bit operations on bytes.                                                *)

RECURSIVE BitXor(_, _)
BitXor(a, b) ==
  IF a = 0 THEN b ELSE IF b = 0 THEN a
  ELSE ((a + b) % 2) + 2 * BitXor(a \div 2, b \div 2)

\* a ^ b for bytes, tabulated: XorTab[a + 1][b + 1]
XorTab ==
  SubSeq([a \in 1..256 |-> SubSeq([b \in 1..256 |-> BitXor(a - 1, b - 1)], 1, 256)], 1, 256)

Xor(a, b) == XorTab[a + 1][b + 1]
\* a & b and a | b, from a + b = (a ^ b) + 2 * (a & b)
And(a, b) == (a + b - XorTab[a + 1][b + 1]) \div 2
Or(a, b) == (a + b + XorTab[a + 1][b + 1]) \div 2

\* (b >> r) and (b << r) & 0xff for a byte b and r in 0..8: ShrTab[r + 1][b + 1]
ShrTab == SubSeq([r \in 1..9 |-> SubSeq([b \in 1..256 |-> (b - 1) \div (2 ^ (r - 1))], 1, 256)], 1, 9)
ShlTab == SubSeq([r \in 1..9 |-> SubSeq([b \in 1..256 |-> ((b - 1) * (2 ^ (r - 1))) % 256], 1, 256)], 1, 9)
Shr8(b, r) == ShrTab[r + 1][b + 1]
Shl8(b, r) == ShlTab[r + 1][b + 1]

\* The byte string of n bytes, all equal to v
Fill(n, v) == SubSeq([i \in 1..n |-> v], 1, n)
\* data[from..to) in Rust's 0-based half-open indexing
Slice(data, from, to) == SubSeq(data, from + 1, to)
\* The byte-wise XOR of two byte strings of equal length
XorBytes(a, b) == SubSeq([i \in 1..Len(a) |-> Xor(a[i], b[i])], 1, Len(a))
Min(a, b) == IF a <= b THEN a ELSE b

\* The concatenation of a sequence of sequences, and the sum of a sequence
RECURSIVE Flatten(_)
Flatten(ss) == IF ss = <<>> THEN <<>> ELSE Head(ss) \o Flatten(Tail(ss))
RECURSIVE Sum(_)
Sum(ns) == IF ns = <<>> THEN 0 ELSE Head(ns) + Sum(Tail(ns))
\* The element of a one-element set.  The({e(v) : v \in {d}}) is e with v
\* standing for the value of d, which is computed once, before e.
The(S) == CHOOSE v \in S : TRUE

-----------------------------------------------------------------------------
(* crypto/sha256.rs                                                        *)

K ==
  <<<<66, 138, 47, 152>>, <<113, 55, 68, 145>>, <<181, 192, 251, 207>>, <<233, 181, 219, 165>>,
  <<57, 86, 194, 91>>, <<89, 241, 17, 241>>, <<146, 63, 130, 164>>, <<171, 28, 94, 213>>,
  <<216, 7, 170, 152>>, <<18, 131, 91, 1>>, <<36, 49, 133, 190>>, <<85, 12, 125, 195>>,
  <<114, 190, 93, 116>>, <<128, 222, 177, 254>>, <<155, 220, 6, 167>>, <<193, 155, 241, 116>>,
  <<228, 155, 105, 193>>, <<239, 190, 71, 134>>, <<15, 193, 157, 198>>, <<36, 12, 161, 204>>,
  <<45, 233, 44, 111>>, <<74, 116, 132, 170>>, <<92, 176, 169, 220>>, <<118, 249, 136, 218>>,
  <<152, 62, 81, 82>>, <<168, 49, 198, 109>>, <<176, 3, 39, 200>>, <<191, 89, 127, 199>>,
  <<198, 224, 11, 243>>, <<213, 167, 145, 71>>, <<6, 202, 99, 81>>, <<20, 41, 41, 103>>,
  <<39, 183, 10, 133>>, <<46, 27, 33, 56>>, <<77, 44, 109, 252>>, <<83, 56, 13, 19>>,
  <<101, 10, 115, 84>>, <<118, 106, 10, 187>>, <<129, 194, 201, 46>>, <<146, 114, 44, 133>>,
  <<162, 191, 232, 161>>, <<168, 26, 102, 75>>, <<194, 75, 139, 112>>, <<199, 108, 81, 163>>,
  <<209, 146, 232, 25>>, <<214, 153, 6, 36>>, <<244, 14, 53, 133>>, <<16, 106, 160, 112>>,
  <<25, 164, 193, 22>>, <<30, 55, 108, 8>>, <<39, 72, 119, 76>>, <<52, 176, 188, 181>>,
  <<57, 28, 12, 179>>, <<78, 216, 170, 74>>, <<91, 156, 202, 79>>, <<104, 46, 111, 243>>,
  <<116, 143, 130, 238>>, <<120, 165, 99, 111>>, <<132, 200, 120, 20>>, <<140, 199, 2, 8>>,
  <<144, 190, 255, 250>>, <<164, 80, 108, 235>>, <<190, 249, 163, 247>>, <<198, 113, 120, 242>>>>

H_INIT ==
  <<<<106, 9, 230, 103>>, <<187, 103, 174, 133>>, <<60, 110, 243, 114>>, <<165, 79, 245, 58>>,
  <<81, 14, 82, 127>>, <<155, 5, 104, 140>>, <<31, 131, 217, 171>>, <<91, 224, 205, 25>>>>

xor32(a, b) == SubSeq([i \in 1..4 |-> Xor(a[i], b[i])], 1, 4)
and32(a, b) == SubSeq([i \in 1..4 |-> And(a[i], b[i])], 1, 4)
not32(a) == <<255 - a[1], 255 - a[2], 255 - a[3], 255 - a[4]>>

\* a.wrapping_add(b): the byte-wise sums x, then the carries from the low byte up
wrapping_add(a, b) ==
  The({<<(x[1] + ((x[2] + ((x[3] + (x[4] \div 256)) \div 256)) \div 256)) % 256,
         (x[2] + ((x[3] + (x[4] \div 256)) \div 256)) % 256,
         (x[3] + (x[4] \div 256)) % 256,
         x[4] % 256>>
       : x \in {<<a[1] + b[1], a[2] + b[2], a[3] + b[3], a[4] + b[4]>>}})

\* w >> n for a u32 w and n in 0..31: whole bytes move n \div 8 places, and
\* each byte takes the low bits of the byte before it
shr32(w, n) ==
  SubSeq([i \in 1..4 |->
            (IF i - (n \div 8) >= 1 THEN Shr8(w[i - (n \div 8)], n % 8) ELSE 0)
            + (IF i - (n \div 8) >= 2 THEN Shl8(w[i - (n \div 8) - 1], 8 - (n % 8)) ELSE 0)],
         1, 4)

\* w.rotate_right(n) for a u32 w and n in 0..31
rotr(w, n) ==
  SubSeq([i \in 1..4 |->
            Shr8(w[((i + 3 - (n \div 8)) % 4) + 1], n % 8)
            + Shl8(w[((i + 2 - (n \div 8)) % 4) + 1], 8 - (n % 8))],
         1, 4)

big_sigma0(w) == xor32(xor32(rotr(w, 2), rotr(w, 13)), rotr(w, 22))
big_sigma1(w) == xor32(xor32(rotr(w, 6), rotr(w, 11)), rotr(w, 25))
small_sigma0(w) == xor32(xor32(rotr(w, 7), rotr(w, 18)), shr32(w, 3))
small_sigma1(w) == xor32(xor32(rotr(w, 17), rotr(w, 19)), shr32(w, 10))
ch(a, b, c) == xor32(and32(a, b), and32(not32(a), c))
maj(a, b, c) == xor32(xor32(and32(a, b), and32(a, c)), and32(b, c))

\* One iteration i (0-based, 16..63) of the message-schedule loop: w[i] is appended
schedule_step(w, i) ==
  Append(w, wrapping_add(wrapping_add(wrapping_add(small_sigma1(w[i - 1]), w[i - 6]),
                                      small_sigma0(w[i - 14])), w[i - 15]))

\* Iterations lo..hi-1 of the message-schedule loop, in order
RECURSIVE schedule(_, _, _)
schedule(w, lo, hi) ==
  IF hi - lo = 1 THEN schedule_step(w, lo)
  ELSE The({schedule(first, (lo + hi) \div 2, hi) : first \in {schedule(w, lo, (lo + hi) \div 2)}})

\* One of the 64 rounds on the working variables v = <<a, b, c, d, e, f, g, h>>
round_step(v, w, i) ==
  The({<<wrapping_add(t1, wrapping_add(big_sigma0(v[1]), maj(v[1], v[2], v[3]))),
         v[1], v[2], v[3], wrapping_add(v[4], t1), v[5], v[6], v[7]>>
       : t1 \in {wrapping_add(wrapping_add(wrapping_add(wrapping_add(
                     v[8], big_sigma1(v[5])), ch(v[5], v[6], v[7])), K[i + 1]), w[i + 1])}})

\* Rounds lo..hi-1, in order
RECURSIVE sha_rounds(_, _, _, _)
sha_rounds(v, w, lo, hi) ==
  IF hi - lo = 1 THEN round_step(v, w, lo)
  ELSE The({sha_rounds(first, w, (lo + hi) \div 2, hi)
            : first \in {sha_rounds(v, w, lo, (lo + hi) \div 2)}})

\* The first 16 words of the message schedule: the block, big-endian
block_words(block) ==
  SubSeq([i \in 1..16 |->
            <<block[4 * i - 3], block[4 * i - 2], block[4 * i - 1], block[4 * i]>>], 1, 16)

\* Sha256::compress: the state after compressing one 64-byte block into it
compress(state, block) ==
  The({The({SubSeq([i \in 1..8 |-> wrapping_add(state[i], v[i])], 1, 8)
            : v \in {sha_rounds(state, w, 0, 64)}})
       : w \in {schedule(block_words(block), 16, 64)}})

\* Sha256::new
Sha256_new == [state |-> H_INIT, buffer |-> Fill(64, 0), buf_len |-> 0, total_len |-> 0]

\* buffer[at..at + Len(src)) = src
CopyInto(buffer, at, src) ==
  SubSeq([i \in 1..Len(buffer) |->
            IF i > at /\ i <= at + Len(src) THEN src[i - at] ELSE buffer[i]], 1, Len(buffer))

\* compress called on each of the blocks in turn
RECURSIVE compress_all(_, _)
compress_all(state, blocks) ==
  IF blocks = <<>> THEN state
  ELSE The({compress_all(next, Tail(blocks)) : next \in {compress(state, Head(blocks))}})

\* An update that forgets the bytes waiting in the buffer
update_pending_lost(hs, data) == [buffer |-> hs.buffer, buf_len |-> 0, offset |-> 0]

\* Sha256::update, "if self.buf_len > 0 {...}" up to the call of compress:
\* the buffer, buf_len (64 when the buffer got full) and offset after it
update_pending(hs, data) ==
  IF hs.buf_len > 0
  THEN [buffer |-> CopyInto(hs.buffer, hs.buf_len,
                            Slice(data, 0, Min(Len(data), 64 - hs.buf_len))),
        buf_len |-> hs.buf_len + Min(Len(data), 64 - hs.buf_len),
        offset |-> Min(Len(data), 64 - hs.buf_len)]
  ELSE [buffer |-> hs.buffer, buf_len |-> 0, offset |-> 0]

\* The blocks that "while offset + 64 <= data.len()" compresses, in order
data_blocks(data, offset) ==
  SubSeq([j \in 1..((Len(data) - offset) \div 64) |->
            Slice(data, offset + 64 * (j - 1), offset + 64 * j)],
         1, (Len(data) - offset) \div 64)

\* Sha256::update: the blocks it hands to compress, in order: the buffer when
\* data filled it, then the whole blocks of data
update_blocks(hs, data) ==
  The({(IF pending.buf_len = 64 THEN <<pending.buffer>> ELSE <<>>)
       \o data_blocks(data, pending.offset)
       : pending \in {update_pending(hs, data)}})

\* Sha256::update: the full buffer is compressed first, then the whole blocks
\* of data; what is left of data goes to the front of the buffer
Sha256_update(hs, data) ==
  The({The({
    [state |-> compress_all(hs.state, update_blocks(hs, data)),
     buffer |-> IF Len(data) - offset > 0
                THEN CopyInto(pending.buffer, 0, Slice(data, offset, Len(data)))
                ELSE pending.buffer,
     buf_len |-> IF Len(data) - offset > 0 THEN Len(data) - offset
                 ELSE IF pending.buf_len = 64 THEN 0 ELSE pending.buf_len,
     total_len |-> hs.total_len + Len(data)]
    : offset \in {pending.offset + 64 * ((Len(data) - pending.offset) \div 64)}})
    : pending \in {update_pending(hs, data)}})

\* n as a u64, little-endian
u64_to_le_bytes(n) ==
  <<n % 256, (n \div 256) % 256, (n \div 65536) % 256, (n \div 16777216) % 256, 0, 0, 0, 0>>

\* n as a u64, big-endian (n < 2^31 in this model)
u64_to_be_bytes(n) ==
  <<0, 0, 0, 0, (n \div 16777216) % 256, (n \div 65536) % 256, (n \div 256) % 256, n % 256>>

\* The digest bytes of a state: each word big-endian
StateBytes(state) ==
  SubSeq([i \in 1..32 |-> state[((i - 1) \div 4) + 1][((i - 1) % 4) + 1]], 1, 32)

\* Sha256::finalize, the last block: zeros from index from up to 56, then the
\* length in bits
final_block(buffer, from, bit_len) ==
  CopyInto(CopyInto(buffer, from, Fill(56 - from, 0)), 56, u64_to_be_bytes(bit_len))

\* Sha256::finalize, the blocks it hands to compress: with no room for the
\* length the buffer is zero-filled and compressed, and the length goes into a
\* block of its own
finalize_blocks(hs) ==
  The({IF hs.buf_len + 1 > 56
       THEN The({<<full, final_block(full, 0, hs.total_len * 8)>>
                 : full \in {CopyInto(marked, hs.buf_len + 1,
                                      Fill(64 - (hs.buf_len + 1), 0))}})
       ELSE <<final_block(marked, hs.buf_len + 1, hs.total_len * 8)>>
       : marked \in {CopyInto(hs.buffer, hs.buf_len, <<128>>)}})

\* Sha256::finalize
Sha256_finalize(hs) == StateBytes(compress_all(hs.state, finalize_blocks(hs)))

\* sha256: one-shot digest
sha256(data) == Sha256_finalize(Sha256_update(Sha256_new, data))

-----------------------------------------------------------------------------
(* crypto/pbkdf2.rs                                                        *)

SHA256_BLOCK_SIZE == 64
SHA256_OUTPUT_SIZE == 32

\* A key_block that also hashes a key of exactly SHA256_BLOCK_SIZE bytes
hmac_key_block_hashed_at_64(key) ==
  IF Len(key) >= SHA256_BLOCK_SIZE
  THEN sha256(key) \o Fill(SHA256_BLOCK_SIZE - SHA256_OUTPUT_SIZE, 0)
  ELSE key \o Fill(SHA256_BLOCK_SIZE - Len(key), 0)

\* hmac_sha256, key_block
hmac_key_block(key) ==
  IF Len(key) > SHA256_BLOCK_SIZE
  THEN sha256(key) \o Fill(SHA256_BLOCK_SIZE - SHA256_OUTPUT_SIZE, 0)
  ELSE key \o Fill(SHA256_BLOCK_SIZE - Len(key), 0)

hmac_sha256(key, message) ==
  The({The({Sha256_finalize(Sha256_update(Sha256_update(
                Sha256_new, XorBytes(Fill(SHA256_BLOCK_SIZE, 92), key_block)), inner_hash))
            : inner_hash \in {Sha256_finalize(Sha256_update(Sha256_update(
                Sha256_new, XorBytes(Fill(SHA256_BLOCK_SIZE, 54), key_block)), message))}})
       : key_block \in {hmac_key_block(key)}})

-----------------------------------------------------------------------------
(* constants.rs                                                            *)

\* b"BVAULT01"
VAULT_MAGIC == <<66, 86, 65, 85, 76, 84, 48, 49>>
VAULT_FORMAT_VERSION == 1
AES_KEY_SIZE == 32
AES_GCM_NONCE_SIZE == 12
AES_GCM_TAG_SIZE == 16
HMAC_SIZE == 32
AES_BLOCK_SIZE == 16

-----------------------------------------------------------------------------
(* crypto/ghash.rs                                                         *)

\* A GfElement is [hi, lo], each u64 held as its 8 big-endian bytes
GfElement_default == [hi |-> Fill(8, 0), lo |-> Fill(8, 0)]
GfElement_from_bytes(b) == [hi |-> SubSeq(b, 1, 8), lo |-> SubSeq(b, 9, 16)]
GfElement_to_bytes(e) == e.hi \o e.lo
GfElement_xor(e, other) == [hi |-> XorBytes(e.hi, other.hi), lo |-> XorBytes(e.lo, other.lo)]

\* 0xE100000000000000
R_POLY == <<225, 0, 0, 0, 0, 0, 0, 0>>

\* (w >> n) & 1 for a u64 w and n in 0..63
bit64(w, n) == Shr8(w[8 - (n \div 8)], n % 8) % 2
\* (w >> 1) | (top << 63) for a u64 w and a bit top
shr64_1(w, top) ==
  <<Shr8(w[1], 1) + 128 * top,
    Shr8(w[2], 1) + Shl8(w[1], 7), Shr8(w[3], 1) + Shl8(w[2], 7),
    Shr8(w[4], 1) + Shl8(w[3], 7), Shr8(w[5], 1) + Shl8(w[4], 7),
    Shr8(w[6], 1) + Shl8(w[5], 7), Shr8(w[7], 1) + Shl8(w[6], 7),
    Shr8(w[8], 1) + Shl8(w[7], 7)>>

\* Iteration i of the loop of gf_mul on zv = <<z, v>>
gf_mul_step(zv, y, i) ==
  LET z == zv[1]
      v == zv[2]
      bit == IF i < 64 THEN bit64(y.hi, 63 - i) ELSE bit64(y.lo, 127 - i)
      z1 == IF bit = 1 THEN GfElement_xor(z, v) ELSE z
      carry == v.hi[8] % 2
      hi1 == shr64_1(v.hi, 0)
      lo1 == shr64_1(v.lo, carry)
      hi2 == IF carry = 1 THEN XorBytes(hi1, R_POLY) ELSE hi1
  IN <<z1, [hi |-> hi2, lo |-> lo1]>>

\* Iterations lo..hi-1 of the loop of gf_mul, in order
RECURSIVE gf_mul_loop(_, _, _, _)
gf_mul_loop(zv, y, lo, hi) ==
  IF hi - lo = 1 THEN gf_mul_step(zv, y, lo)
  ELSE The({gf_mul_loop(first, y, (lo + hi) \div 2, hi)
            : first \in {gf_mul_loop(zv, y, lo, (lo + hi) \div 2)}})

gf_mul(e, y) == gf_mul_loop(<<GfElement_default, e>>, y, 0, 128)[1]

\* The "while i + 16 <= data.len()" loop of ghash, from offset i with accumulator y
RECURSIVE ghash_loop(_, _, _, _)
ghash_loop(h, data, y, i) ==
  IF i + 16 <= Len(data)
  THEN The({ghash_loop(h, data, next, i + 16)
            : next \in {gf_mul(GfElement_xor(y, GfElement_from_bytes(Slice(data, i, i + 16))), h)}})
  ELSE y

ghash(h, data) == ghash_loop(h, data, GfElement_default, 0)

-----------------------------------------------------------------------------
(* crypto/aes_gcm.rs                                                       *)

SBOX ==
  <<99, 124, 119, 123, 242, 107, 111, 197, 48, 1, 103, 43, 254, 215, 171, 118,
  202, 130, 201, 125, 250, 89, 71, 240, 173, 212, 162, 175, 156, 164, 114, 192,
  183, 253, 147, 38, 54, 63, 247, 204, 52, 165, 229, 241, 113, 216, 49, 21,
  4, 199, 35, 195, 24, 150, 5, 154, 7, 18, 128, 226, 235, 39, 178, 117,
  9, 131, 44, 26, 27, 110, 90, 160, 82, 59, 214, 179, 41, 227, 47, 132,
  83, 209, 0, 237, 32, 252, 177, 91, 106, 203, 190, 57, 74, 76, 88, 207,
  208, 239, 170, 251, 67, 77, 51, 133, 69, 249, 2, 127, 80, 60, 159, 168,
  81, 163, 64, 143, 146, 157, 56, 245, 188, 182, 218, 33, 16, 255, 243, 210,
  205, 12, 19, 236, 95, 151, 68, 23, 196, 167, 126, 61, 100, 93, 25, 115,
  96, 129, 79, 220, 34, 42, 144, 136, 70, 238, 184, 20, 222, 94, 11, 219,
  224, 50, 58, 10, 73, 6, 36, 92, 194, 211, 172, 98, 145, 149, 228, 121,
  231, 200, 55, 109, 141, 213, 78, 169, 108, 86, 244, 234, 101, 122, 174, 8,
  186, 120, 37, 46, 28, 166, 180, 198, 232, 221, 116, 31, 75, 189, 139, 138,
  112, 62, 181, 102, 72, 3, 246, 14, 97, 53, 87, 185, 134, 193, 29, 158,
  225, 248, 152, 17, 105, 217, 142, 148, 155, 30, 135, 233, 206, 85, 40, 223,
  140, 161, 137, 13, 191, 230, 66, 104, 65, 153, 45, 15, 176, 84, 187, 22>>

RCON == <<1, 2, 4, 8, 16, 32, 64, 128, 27, 54>>
NR == 14
NK == 8

rot_word(w) == <<w[2], w[3], w[4], w[1]>>
sub_word(w) == SubSeq([i \in 1..4 |-> SBOX[w[i] + 1]], 1, 4)

\* temp of iteration i of the expansion loop, from w[i - 1]
expand_temp(prev, i) ==
  IF i % NK = 0
  THEN xor32(sub_word(rot_word(prev)), <<RCON[i \div NK], 0, 0, 0>>)
  ELSE IF i % NK = 4 THEN sub_word(prev) ELSE prev

\* Iterations lo..hi-1 of the expansion loop, in order; w holds the words 0..lo-1
RECURSIVE expand(_, _, _)
expand(w, lo, hi) ==
  IF hi - lo = 1 THEN Append(w, xor32(w[lo - NK + 1], expand_temp(w[lo], lo)))
  ELSE The({expand(first, (lo + hi) \div 2, hi) : first \in {expand(w, lo, (lo + hi) \div 2)}})

key_expansion(key) ==
  The({SubSeq([r \in 1..(NR + 1) |->
                 w[4 * r - 3] \o w[4 * r - 2] \o w[4 * r - 1] \o w[4 * r]], 1, NR + 1)
       : w \in {expand(SubSeq([i \in 1..NK |->
                                 <<key[4 * i - 3], key[4 * i - 2], key[4 * i - 1], key[4 * i]>>],
                              1, NK), NK, 4 * (NR + 1))}})

\* A ShiftRows that leaves every row where it is
shift_rows_none(s) == s

sub_bytes(s) == SubSeq([i \in 1..16 |-> SBOX[s[i] + 1]], 1, 16)

shift_rows(s) ==
  <<s[1], s[6], s[11], s[16], s[5], s[10], s[15], s[4],
    s[9], s[14], s[3], s[8], s[13], s[2], s[7], s[12]>>

\* The 8 iterations of the loop of gmul, n of them still to run
RECURSIVE gmul_loop(_, _, _, _)
gmul_loop(a, b, p, n) ==
  IF n = 0 THEN p
  ELSE LET p1 == IF b % 2 # 0 THEN Xor(p, a) ELSE p
           hi == And(a, 128)
           a1 == (a * 2) % 256
           a2 == IF hi # 0 THEN Xor(a1, 27) ELSE a1
       IN gmul_loop(a2, b \div 2, p1, n - 1)

gmul(a, b) == gmul_loop(a, b, 0, 8)

\* gmul(a, 2) and gmul(a, 3) for every byte a, tabulated
Gmul2 == SubSeq([a \in 1..256 |-> gmul(a - 1, 2)], 1, 256)
Gmul3 == SubSeq([a \in 1..256 |-> gmul(a - 1, 3)], 1, 256)

mix_columns(s) ==
  SubSeq([k \in 1..16 |->
            LET c == ((k - 1) \div 4) * 4
                a0 == s[c + 1]
                a1 == s[c + 2]
                a2 == s[c + 3]
                a3 == s[c + 4]
            IN CASE (k - 1) % 4 = 0 -> Xor(Xor(Xor(Gmul2[a0 + 1], Gmul3[a1 + 1]), a2), a3)
                 [] (k - 1) % 4 = 1 -> Xor(Xor(Xor(a0, Gmul2[a1 + 1]), Gmul3[a2 + 1]), a3)
                 [] (k - 1) % 4 = 2 -> Xor(Xor(Xor(a0, a1), Gmul2[a2 + 1]), Gmul3[a3 + 1])
                 [] OTHER -> Xor(Xor(Xor(Gmul3[a0 + 1], a1), a2), Gmul2[a3 + 1])], 1, 16)

xor_block(dst, src) == XorBytes(dst, src)

\* Rounds lo..hi-1 of aes_encrypt_block, in order
RECURSIVE aes_rounds(_, _, _, _)
aes_rounds(state, round_keys, lo, hi) ==
  IF hi - lo = 1
  THEN xor_block(mix_columns(shift_rows(sub_bytes(state))), round_keys[lo + 1])
  ELSE The({aes_rounds(first, round_keys, (lo + hi) \div 2, hi)
            : first \in {aes_rounds(state, round_keys, lo, (lo + hi) \div 2)}})

aes_encrypt_block(block, round_keys) ==
  xor_block(shift_rows(sub_bytes(aes_rounds(xor_block(block, round_keys[1]), round_keys, 1, NR))),
            round_keys[NR + 1])

inc_counter(ctr) ==
  SubSeq(ctr, 1, 12) \o wrapping_add(SubSeq(ctr, 13, 16), <<0, 0, 0, 1>>)

ghash_pad(data) ==
  LET rem == Len(data) % 16
  IN IF rem # 0 THEN data \o Fill(16 - rem, 0) ELSE data

compute_tag(h, aad, ciphertext, s0) ==
  XorBytes(GfElement_to_bytes(ghash(h, ghash_pad(aad) \o ghash_pad(ciphertext)
                                       \o u64_to_be_bytes(Len(aad) * 8)
                                       \o u64_to_be_bytes(Len(ciphertext) * 8))),
           s0)

\* The loop "diff |= a[i] ^ b[i]" from index i, with the bits collected so far
RECURSIVE diff_loop(_, _, _, _)
diff_loop(a, b, diff, i) ==
  IF i > 16 THEN diff ELSE diff_loop(a, b, Or(diff, Xor(a[i], b[i])), i + 1)

constant_time_eq(a, b) == diff_loop(a, b, 0, 1) = 0

\* J0 = nonce || 0x00000001
J0(nonce) == nonce \o <<0, 0, 0, 1>>

\* One iteration of the CTR loop: the bytes it pushes for the block at offset
ctr_block(round_keys, ctr, input, offset) ==
  XorBytes(Slice(input, offset, offset + Min(Len(input) - offset, AES_BLOCK_SIZE)),
           SubSeq(aes_encrypt_block(ctr, round_keys), 1,
                  Min(Len(input) - offset, AES_BLOCK_SIZE)))

\* The CTR loop from offset with counter ctr: the output it appends to out
RECURSIVE ctr_loop(_, _, _, _, _)
ctr_loop(round_keys, ctr, input, offset, out) ==
  IF offset < Len(input)
  THEN The({ctr_loop(round_keys, inc_counter(ctr), input,
                     offset + Min(Len(input) - offset, AES_BLOCK_SIZE), next)
            : next \in {out \o ctr_block(round_keys, ctr, input, offset)}})
  ELSE out

\* H = AES_K(0^128)
hash_subkey(round_keys) == GfElement_from_bytes(aes_encrypt_block(Fill(16, 0), round_keys))

\* An encryption whose counter starts at J0 instead of J0 + 1
aes_gcm_encrypt_from_j0(key, nonce, plaintext, aad) ==
  The({The({[ciphertext |-> ciphertext, tag |-> compute_tag(h, aad, ciphertext, s0)]
            : h \in {hash_subkey(round_keys)},
              s0 \in {aes_encrypt_block(J0(nonce), round_keys)},
              ciphertext \in {ctr_loop(round_keys, J0(nonce), plaintext, 0, <<>>)}})
       : round_keys \in {key_expansion(key)}})

\* aes_gcm_encrypt: [ciphertext, tag]
aes_gcm_encrypt(key, nonce, plaintext, aad) ==
  The({The({[ciphertext |-> ciphertext, tag |-> compute_tag(h, aad, ciphertext, s0)]
            : h \in {hash_subkey(round_keys)},
              s0 \in {aes_encrypt_block(J0(nonce), round_keys)},
              ciphertext \in {ctr_loop(round_keys, inc_counter(J0(nonce)), plaintext, 0, <<>>)}})
       : round_keys \in {key_expansion(key)}})

\* A BvResult: Ok(value) or Err(kind); kind is the BvError variant
Ok(v) == [ok |-> TRUE, err |-> "", value |-> v]
Err(kind) == [ok |-> FALSE, err |-> kind, value |-> <<>>]

\* aes_gcm_decrypt: Ok(plaintext) or Err(Crypto)
aes_gcm_decrypt(key, nonce, ciphertext, tag, aad) ==
  The({The({IF ~constant_time_eq(compute_tag(h, aad, ciphertext, s0), tag)
            THEN Err("Crypto")
            ELSE Ok(ctr_loop(round_keys, inc_counter(J0(nonce)), ciphertext, 0, <<>>))
            : h \in {hash_subkey(round_keys)},
              s0 \in {aes_encrypt_block(J0(nonce), round_keys)}})
       : round_keys \in {key_expansion(key)}})

-----------------------------------------------------------------------------
(* history/entry.rs                                                        *)

\* A ClipboardEntry is [timestamp, entry_type, flags, source_app, content]:
\* timestamp is the i64 as its 8 big-endian two's-complement bytes, a String
\* is its UTF-8 bytes, entry_type is one of the three variants below.
EntryTypes == {"Text", "PlainText", "FileDrop"}

\* entry_type as u8
EntryType_as_u8(t) == CASE t = "Text" -> 0 [] t = "PlainText" -> 1 [] OTHER -> 2

\* EntryType::from_u8: Some(type), or None, written "None"
EntryType_from_u8(v) ==
  CASE v = 0 -> "Text" [] v = 1 -> "PlainText" [] v = 2 -> "FileDrop" [] OTHER -> "None"

\* A to_byte that drops the pinned flag
EntryFlags_unpinned(flags) == 0

EntryFlags_to_byte(flags) == IF flags.pinned THEN 1 ELSE 0
EntryFlags_from_byte(b) == [pinned |-> And(b, 1) # 0]

-----------------------------------------------------------------------------
(* storage/format.rs                                                       *)

Reverse(s) == SubSeq([i \in 1..Len(s) |-> s[Len(s) + 1 - i]], 1, Len(s))

\* (n as u16).to_le_bytes() and (n as u32).to_le_bytes() for a length n
u16_to_le_bytes(n) == <<n % 256, (n \div 256) % 256>>
u32_to_le_bytes(n) == <<n % 256, (n \div 256) % 256, (n \div 65536) % 256, (n \div 16777216) % 256>>

u16_from_le_bytes(b) == b[1] + 256 * b[2]
\* u32::from_le_bytes(b) as usize.  The code only compares the value with
\* buffer lengths, or counts loop iterations that each consume input, so a
\* value of 2^30 or more is held as 2^30.  The additions pos + value that can
\* exceed the width of usize are in checked_slice.
u32_from_le_bytes(b) ==
  IF b[4] >= 64 THEN 1073741824 ELSE b[1] + 256 * b[2] + 65536 * b[3] + 16777216 * b[4]

\* i64::to_le_bytes and i64::from_le_bytes
i64_to_le_bytes(t) == Reverse(t)
i64_from_le_bytes(b) == Reverse(b)

IsCont(b, from, to) == b >= from /\ b <= to

\* The length of the well-formed UTF-8 sequence starting at s[i], as a positive
\* number, or minus the length of the ill-formed sequence there (the maximal
\* prefix of a well-formed one, at least one byte)
utf8_chunk(s, i) ==
  LET n == Len(s)
      b0 == s[i]
      b1 == IF i + 1 <= n THEN s[i + 1] ELSE 0
      b2 == IF i + 2 <= n THEN s[i + 2] ELSE 0
      b3 == IF i + 3 <= n THEN s[i + 3] ELSE 0
      lo1 == CASE b0 = 224 -> 160 [] b0 = 240 -> 144 [] OTHER -> 128
      hi1 == CASE b0 = 237 -> 159 [] b0 = 244 -> 143 [] OTHER -> 191
      want == CASE b0 < 128 -> 1
                [] b0 >= 194 /\ b0 <= 223 -> 2
                [] b0 >= 224 /\ b0 <= 239 -> 3
                [] b0 >= 240 /\ b0 <= 244 -> 4
                [] OTHER -> 0
  IN CASE want = 0 -> -1
       [] want = 1 -> 1
       [] want >= 2 /\ ~IsCont(b1, lo1, hi1) -> -1
       [] want = 2 -> 2
       [] want >= 3 /\ ~IsCont(b2, 128, 191) -> -2
       [] want = 3 -> 3
       [] want = 4 /\ ~IsCont(b3, 128, 191) -> -3
       [] OTHER -> 4

\* U+FFFD in UTF-8
REPLACEMENT == <<239, 191, 189>>

\* String::from_utf8_lossy(s).to_string(), from index i, appended to out
RECURSIVE lossy_loop(_, _, _)
lossy_loop(s, i, out) ==
  IF i > Len(s) THEN out
  ELSE The({The({lossy_loop(s, IF c > 0 THEN i + c ELSE i - c, next)
                 : next \in {IF c > 0 THEN out \o SubSeq(s, i, i + c - 1)
                             ELSE out \o REPLACEMENT}})
            : c \in {utf8_chunk(s, i)}})

from_utf8_lossy(s) == lossy_loop(s, 1, <<>>)

serialize_entry(entry) ==
  LET source_bytes == entry.source_app
      content_bytes == entry.content
  IN i64_to_le_bytes(entry.timestamp)
     \o <<EntryType_as_u8(entry.entry_type)>>
     \o <<EntryFlags_to_byte(entry.flags)>>
     \o u16_to_le_bytes(Len(source_bytes) % 65536)
     \o source_bytes
     \o u32_to_le_bytes(Len(content_bytes))
     \o content_bytes

\* deserialize_entry: Ok([entry, consumed]) or Err(Integrity)
deserialize_entry(data) ==
  IF Len(data) < 8 THEN Err("Integrity")
  ELSE IF Len(data) < 9 THEN Err("Integrity")
  ELSE IF EntryType_from_u8(data[9]) = "None" THEN Err("Integrity")
  ELSE IF Len(data) < 10 THEN Err("Integrity")
  ELSE IF Len(data) < 12 THEN Err("Integrity")
  ELSE The({
    IF Len(data) < 12 + source_len THEN Err("Integrity")
    ELSE IF Len(data) < 12 + source_len + 4 THEN Err("Integrity")
    ELSE The({
      IF Len(data) < 12 + source_len + 4 + content_len THEN Err("Integrity")
      ELSE Ok([entry |-> [timestamp |-> i64_from_le_bytes(Slice(data, 0, 8)),
                          entry_type |-> EntryType_from_u8(data[9]),
                          flags |-> EntryFlags_from_byte(data[10]),
                          source_app |-> from_utf8_lossy(Slice(data, 12, 12 + source_len)),
                          content |-> from_utf8_lossy(Slice(data, 12 + source_len + 4,
                                                            12 + source_len + 4 + content_len))],
               consumed |-> 12 + source_len + 4 + content_len])
      : content_len \in {u32_from_le_bytes(Slice(data, 12 + source_len, 12 + source_len + 4))}})
    : source_len \in {u16_from_le_bytes(Slice(data, 10, 12))}})

\* The loop of serialize_entries from entry i, appended to buf
RECURSIVE serialize_loop(_, _, _)
serialize_loop(entries, i, buf) ==
  IF i > Len(entries) THEN buf
  ELSE The({serialize_loop(entries, i + 1, buf \o u32_to_le_bytes(Len(data)) \o data)
            : data \in {serialize_entry(entries[i])}})

serialize_entries(entries) == serialize_loop(entries, 1, u32_to_le_bytes(Len(entries)))

\* A loop that stops at the first entry it cannot decode and returns the
\* entries pushed so far
RECURSIVE deserialize_lenient(_, _, _, _)
deserialize_lenient(data, left, pos, entries) ==
  IF left = 0 \/ pos + 4 > Len(data) THEN Ok(entries)
  ELSE The({
    IF pos + 4 + entry_size > Len(data) THEN Ok(entries)
    ELSE The({
      IF ~one.ok THEN Ok(entries)
      ELSE IF one.value.consumed # entry_size THEN Ok(entries)
      ELSE deserialize_lenient(data, left - 1, pos + 4 + entry_size,
                               Append(entries, one.value.entry))
      : one \in {deserialize_entry(Slice(data, pos + 4, pos + 4 + entry_size))}})
    : entry_size \in {u32_from_le_bytes(Slice(data, pos, pos + 4))}})

\* The "for _ in 0..count" loop of deserialize_entries with left iterations to
\* run, at offset pos, with the entries pushed so far
RECURSIVE deserialize_loop(_, _, _, _)
deserialize_loop(data, left, pos, entries) ==
  IF left = 0 THEN Ok(entries)
  ELSE IF pos + 4 > Len(data) THEN Err("Integrity")
  ELSE The({
    IF pos + 4 + entry_size > Len(data) THEN Err("Integrity")
    ELSE The({
      IF ~one.ok THEN one
      ELSE IF one.value.consumed # entry_size THEN Err("Integrity")
      ELSE deserialize_loop(data, left - 1, pos + 4 + entry_size,
                            Append(entries, one.value.entry))
      : one \in {deserialize_entry(Slice(data, pos + 4, pos + 4 + entry_size))}})
    : entry_size \in {u32_from_le_bytes(Slice(data, pos, pos + 4))}})

\* deserialize_entries: Ok(entries) or Err(Integrity)
deserialize_entries(data) ==
  IF Len(data) < 4 THEN Err("Integrity")
  ELSE deserialize_loop(data, u32_from_le_bytes(Slice(data, 0, 4)), 4, <<>>)

-----------------------------------------------------------------------------
(* The inputs of the model: keys, nonces and entries                       *)

\* Entry lists have 0..MaxEntries entries
MaxEntries == 2
\* fs::write hands the file to the system in pieces of at most WriteChunk bytes
WriteChunk == 64

\* vec![0xAA; AES_KEY_SIZE] and vec![0xBB; AES_KEY_SIZE], the keys of the tests
Key1 == Fill(AES_KEY_SIZE, 170)
Key2 == Fill(AES_KEY_SIZE, 187)
\* Key1 followed by one zero byte: a different key, one byte longer
KeyLong == Key1 \o <<0>>
\* a key one byte short of AES_KEY_SIZE
KeyShort == Fill(AES_KEY_SIZE - 1, 170)
KeysTab == <<Key1, Key2, KeyLong, KeyShort>>

\* Two values csprng_fill can leave in the nonce
NonceTab == <<<<1, 2, 3, 4, 5, 6, 7, 8, 9, 10, 11, 12>>, Fill(AES_GCM_NONCE_SIZE, 255)>>

\* Entries that differ in every field: timestamps 1700000000, -1 and 0,
\* source_app "a.exe", "" and "b", content "hi", "e-acute" and ""
EntryPool ==
  <<[timestamp |-> <<0, 0, 0, 0, 101, 83, 241, 0>>, entry_type |-> "Text",
     flags |-> [pinned |-> FALSE], source_app |-> <<97, 46, 101, 120, 101>>,
     content |-> <<104, 105>>],
    [timestamp |-> Fill(8, 255), entry_type |-> "FileDrop",
     flags |-> [pinned |-> TRUE], source_app |-> <<>>, content |-> <<195, 169>>],
    [timestamp |-> Fill(8, 0), entry_type |-> "PlainText",
     flags |-> [pinned |-> FALSE], source_app |-> <<98>>, content |-> <<>>]>>

\* The entry list of n entries
Entries(n) == SubSeq(EntryPool, 1, n)

-----------------------------------------------------------------------------
(* storage/vault.rs                                                        *)

\* key[..AES_KEY_SIZE] panics when the slice is shorter
KeySlicePanics(key) == Len(key) < AES_KEY_SIZE

\* save_vault, lines 50-78: the bytes it is about to write, for a key of at
\* least AES_KEY_SIZE bytes and the nonce that csprng_fill produced
vault_data(entries, key, nonce) ==
  The({The({data \o hmac_sha256(key, data)
            : data \in {VAULT_MAGIC \o u32_to_le_bytes(VAULT_FORMAT_VERSION) \o nonce
                        \o enc.tag \o u32_to_le_bytes(Len(enc.ciphertext)) \o enc.ciphertext}})
       : enc \in {aes_gcm_encrypt(SubSeq(key, 1, AES_KEY_SIZE), nonce,
                                  serialize_entries(entries), VAULT_MAGIC)}})

\* load_vault, line 103
min_size == 8 + 4 + AES_GCM_NONCE_SIZE + AES_GCM_TAG_SIZE + 4 + HMAC_SIZE

\* load_vault, line 122
hmac_offset(data) == Len(data) - HMAC_SIZE

\* A magic check that lets every file through
magic_unchecked(data) == FALSE

\* load_vault, line 109: &data[0..8] != VAULT_MAGIC
magic_mismatch(data) == Slice(data, 0, 8) # VAULT_MAGIC

-----------------------------------------------------------------------------
(* Files that save_vault did not write                                     *)

\* A file laid out like a vault file: the given magic and version, the
\* plaintext sealed under the key (a short key zero-extended for AES), the
\* first tag byte xor-ed with tag_xor, the ciphertext length off by ct_extra,
\* and a valid HMAC of all of it under the key
LaidOut(magic, version, key, plaintext, tag_xor, ct_extra) ==
  The({The({data \o hmac_sha256(key, data)
            : data \in {magic \o u32_to_le_bytes(version) \o NonceTab[1]
                        \o [enc.tag EXCEPT ![1] = Xor(@, tag_xor)]
                        \o u32_to_le_bytes(Len(enc.ciphertext) + ct_extra) \o enc.ciphertext}})
       : enc \in {aes_gcm_encrypt(SubSeq(key \o Fill(AES_KEY_SIZE, 0), 1, AES_KEY_SIZE),
                                  NonceTab[1], plaintext, VAULT_MAGIC)}})

\* data with the byte at index i (from 1) xor-ed with 1; data itself for i = 0
Flip(data, i) == IF i = 0 THEN data ELSE [data EXCEPT ![i] = Xor(@, 1)]

\* Files too short to be laid out, or with no layout at all
RawFiles ==
  <<\* 1: an empty file
    <<>>,
    \* 2: one byte short of min_size, magic and version in place
    VAULT_MAGIC \o u32_to_le_bytes(VAULT_FORMAT_VERSION) \o Fill(min_size - 13, 7),
    \* 3: no magic at all, min_size bytes of zeros
    Fill(min_size, 0)>>

\* The plaintexts of the laid-out files: one entry; a count of two over one
\* entry; two entries, the second with type tag 3; two bytes; one entry
\* followed by bytes that belong to no entry
ForeignPlaintexts ==
  The({<<one,
         [one EXCEPT ![1] = 2],
         [two EXCEPT ![Len(one) + 4 + 9] = 3],
         <<0, 0>>,
         one \o <<9, 9, 9>>>>
       : one \in {serialize_entries(Entries(1))},
         two \in {serialize_entries(Entries(2))}})

Layout(magic, version, key, plaintext, tag_xor, ct_extra, flip) ==
  [magic |-> magic, version |-> version, key |-> key, plaintext |-> plaintext,
   tag_xor |-> tag_xor, ct_extra |-> ct_extra, flip |-> flip]

ForeignLayouts ==
  The({<<\* 4: another magic, everything else as save_vault writes it
         Layout(<<66, 86, 65, 85, 76, 84, 48, 50>>, VAULT_FORMAT_VERSION, Key1, pt[1], 0, 0, 0),
         \* 5: version 2
         Layout(VAULT_MAGIC, 2, Key1, pt[1], 0, 0, 0),
         \* 6: a ciphertext byte changed after sealing
         Layout(VAULT_MAGIC, VAULT_FORMAT_VERSION, Key1, pt[1], 0, 0, 45),
         \* 7: the ciphertext length says one byte more than there is
         Layout(VAULT_MAGIC, VAULT_FORMAT_VERSION, Key1, pt[1], 0, 1, 0),
         \* 8: a wrong GCM tag under a valid HMAC
         Layout(VAULT_MAGIC, VAULT_FORMAT_VERSION, Key1, pt[1], 1, 0, 0),
         \* 9: authentic, the plaintext announces two entries and holds one
         Layout(VAULT_MAGIC, VAULT_FORMAT_VERSION, Key1, pt[2], 0, 0, 0),
         \* 10: authentic, the second entry has type tag 3
         Layout(VAULT_MAGIC, VAULT_FORMAT_VERSION, Key1, pt[3], 0, 0, 0),
         \* 11: authentic, the plaintext is shorter than the 4-byte count
         Layout(VAULT_MAGIC, VAULT_FORMAT_VERSION, Key1, pt[4], 0, 0, 0),
         \* 12: authentic, one entry followed by bytes that belong to no entry
         Layout(VAULT_MAGIC, VAULT_FORMAT_VERSION, Key1, pt[5], 0, 0, 0),
         \* 13: laid out and authenticated with the short key
         Layout(VAULT_MAGIC, VAULT_FORMAT_VERSION, KeyShort, pt[1], 0, 0, 0)>>
       : pt \in {ForeignPlaintexts}})

ForeignFiles ==
  The({RawFiles \o SubSeq([i \in 1..Len(layouts) |->
                             Flip(LaidOut(layouts[i].magic, layouts[i].version, layouts[i].key,
                                          layouts[i].plaintext, layouts[i].tag_xor,
                                          layouts[i].ct_extra),
                                  layouts[i].flip)],
                          1, Len(layouts))
       : layouts \in {ForeignLayouts}})

-----------------------------------------------------------------------------
(* The calls of the model and what their cryptography computes.  TLC would *)
(* otherwise recompute the same digest in every state that asks for it:     *)
(* Memo holds, for the files and keys of the model, the values of           *)
(* compute_file_hmac and compute_decrypt, computed once.                    *)

\* The i-th argument triple of save_vault: every key with every nonce and
\* every entry list
NInputs == Len(KeysTab) * Len(NonceTab) * (MaxEntries + 1)
SaveInput(i) ==
  [key |-> KeysTab[((i - 1) % Len(KeysTab)) + 1],
   nonce |-> NonceTab[(((i - 1) \div Len(KeysTab)) % Len(NonceTab)) + 1],
   entries |-> Entries((i - 1) \div (Len(KeysTab) * Len(NonceTab)))]

\* vault_data of the i-th argument triple (nothing for a key that panics)
Images ==
  SubSeq([i \in 1..NInputs |->
            The({IF KeySlicePanics(arg.key) THEN <<>>
                 ELSE vault_data(arg.entries, arg.key, arg.nonce)
                 : arg \in {SaveInput(i)}})],
         1, NInputs)

\* The first index of v in seq, 0 when it is not there
IndexOf(seq, v) ==
  IF \E i \in 1..Len(seq) : seq[i] = v
  THEN CHOOSE i \in 1..Len(seq) : seq[i] = v /\ \A j \in 1..(i - 1) : seq[j] # v
  ELSE 0

\* load_vault, line 123, on a file of at least min_size bytes
compute_file_hmac(key, data) == hmac_sha256(key, Slice(data, 0, hmac_offset(data)))

\* load_vault, lines 129-147: the fields behind the version
nonce_of(data) == Slice(data, 12, 12 + AES_GCM_NONCE_SIZE)
tag_of(data) == Slice(data, 24, 24 + AES_GCM_TAG_SIZE)
ct_len_of(data) == u32_from_le_bytes(Slice(data, 40, 44))
ciphertext_of(data) == Slice(data, 44, 44 + ct_len_of(data))
ct_exceeds(data) == 44 + ct_len_of(data) > hmac_offset(data)

\* load_vault, lines 150-154, for a key of at least AES_KEY_SIZE bytes
compute_decrypt(key, data) ==
  aes_gcm_decrypt(SubSeq(key, 1, AES_KEY_SIZE), nonce_of(data), ciphertext_of(data),
                  tag_of(data), VAULT_MAGIC)

\* Whether load_vault gets as far as the HMAC on this file
ReachesHmac(data) ==
  /\ Len(data) >= min_size
  /\ ~magic_mismatch(data)
  /\ u32_from_le_bytes(Slice(data, 8, 12)) = VAULT_FORMAT_VERSION

\* The HMAC stored at the end of the file
stored_hmac(data) == Slice(data, hmac_offset(data), Len(data))

\* compute_file_hmac of every file that reaches the HMAC, under every key
HmacTable(files) ==
  SubSeq([f \in 1..Len(files) |->
            SubSeq([k \in 1..Len(KeysTab) |->
                      IF ReachesHmac(files[f])
                      THEN compute_file_hmac(KeysTab[k], files[f]) ELSE <<>>],
                   1, Len(KeysTab))],
         1, Len(files))

\* compute_decrypt of every file under every key that gets load_vault as far as
\* the decryption
DecryptTable(files, hmacs) ==
  SubSeq([f \in 1..Len(files) |->
            SubSeq([k \in 1..Len(KeysTab) |->
                      IF /\ ReachesHmac(files[f])
                         /\ hmacs[f][k] = stored_hmac(files[f])
                         /\ ~ct_exceeds(files[f])
                         /\ ~KeySlicePanics(KeysTab[k])
                      THEN <<compute_decrypt(KeysTab[k], files[f])>> ELSE <<>>],
                   1, Len(KeysTab))],
         1, Len(files))

Memo ==
  The({The({[files |-> files, hmacs |-> hmacs, opened |-> DecryptTable(files, hmacs)]
            : hmacs \in {HmacTable(files)}})
       : files \in {ForeignFiles \o Images}})

\* compute_file_hmac(key, data)
file_hmac(key, data) ==
  The({The({IF f > 0 /\ k > 0 /\ ReachesHmac(data) THEN m.hmacs[f][k]
            ELSE compute_file_hmac(key, data)
            : f \in {IndexOf(m.files, data)}, k \in {IndexOf(KeysTab, key)}})
       : m \in {Memo}})

\* compute_decrypt(key, data)
file_decrypt(key, data) ==
  The({The({IF f > 0 /\ k > 0 /\ m.opened[f][k] # <<>> THEN m.opened[f][k][1]
            ELSE compute_decrypt(key, data)
            : f \in {IndexOf(m.files, data)}, k \in {IndexOf(KeysTab, key)}})
       : m \in {Memo}})

-----------------------------------------------------------------------------
(* The file system and the calls of save_vault and load_vault              *)

\* path is "dest"; path.with_extension("tmp") is "tmp"
Paths == {"dest", "tmp"}
\* A temporary path that is the path itself
tmp_path_same(path) == path
tmp_path(path) == "tmp"

\* A path.exists() that is true of every path
path_exists_always(d, p) == TRUE
\* path.exists()
path_exists(d, p) == d[p].exists

Absent == [exists |-> FALSE, data |-> <<>>]
Present(data) == [exists |-> TRUE, data |-> data]

\* A File::create that truncates the destination itself
fs_create_dest(d, p) == [d EXCEPT !["dest"] = Present(<<>>)]
\* File::create(p): the file exists and is empty
fs_create(d, p) == [d EXCEPT ![p] = Present(<<>>)]
\* One write of bytes at the end of p
fs_append(d, p, bytes) == [d EXCEPT ![p] = Present(d[p].data \o bytes)]
\* fs::rename(from, to): to is replaced in one step, from is gone
fs_rename(d, from, to) == IF from = to THEN d ELSE [d EXCEPT ![to] = d[from], ![from] = Absent]

NoCall == [op |-> "none", key |-> <<>>, entries |-> <<>>, data |-> <<>>,
           before |-> Absent, written |-> 0, plaintext |-> <<>>]
NoResult == [ok |-> FALSE, err |-> "none", value |-> <<>>]
\* The call did not return: it panicked
Panic == [ok |-> FALSE, err |-> "panic", value |-> <<>>]
NotSaved == [valid |-> FALSE, key |-> <<>>, entries |-> <<>>]
\* No call of aes_gcm_encrypt or aes_gcm_decrypt: sealed is what aes_gcm_encrypt
\* was given and returned; key, nonce, ciphertext, tag and aad are the arguments
\* of aes_gcm_decrypt and the rest its local variables
GcmIdle ==
  [pc |-> "idle",
   sealed |-> [key |-> <<>>, nonce |-> <<>>, plaintext |-> <<>>, aad |-> <<>>,
               ciphertext |-> <<>>, tag |-> <<>>],
   key |-> <<>>, nonce |-> <<>>, ciphertext |-> <<>>, tag |-> <<>>, aad |-> <<>>,
   round_keys |-> <<>>, h |-> GfElement_default, s0 |-> <<>>, computed_tag |-> <<>>,
   ctr |-> <<>>, offset |-> 0, plaintext |-> <<>>, keystream_blocks |-> 0,
   result |-> NoResult]

\* An order of load_vault in which the HMAC comes after the fields are read
load_order_late ==
  <<"exists", "read", "min_size", "magic", "version",
    "nonce", "tag", "ct_len", "hmac", "key", "decrypt", "deserialize">>

\* No call of a function that is studied on its own
RunIdle == [pc |-> "idle"]

\* The stages of load_vault in the order of its statements (lines 96-157)
load_order ==
  <<"exists", "read", "min_size", "magic", "version", "hmac",
    "nonce", "tag", "ct_len", "key", "decrypt", "deserialize">>

\* The statements of save_vault that act on the file system (lines 82-86)
save_order == <<"mkdir", "create", "write", "rename">>

StageAfter(order, stage) == order[IndexOf(order, stage) + 1]

Init ==
  /\ disk \in {[dest |-> Absent, tmp |-> Absent]}
              \cup {[dest |-> Present(ForeignFiles[i]), tmp |-> Absent] : i \in 1..Len(ForeignFiles)}
  /\ pc = "idle"
  /\ call = NoCall
  /\ result = NoResult
  /\ steps = <<>>
  /\ saved = NotSaved
  /\ gcm = GcmIdle
  /\ run = RunIdle

\* The stage ran and the call goes on
Proceed(order, stage) ==
  /\ steps' = Append(steps, stage)
  /\ pc' = StageAfter(order, stage)
  /\ result' = result

\* The stage ran and the call returns res
Return(stage, res) ==
  /\ steps' = Append(steps, stage)
  /\ pc' = "returned"
  /\ result' = res

\* save_vault(path, entries, key), lines 50-78: everything before the first
\* file-system call.  csprng_fill fails or fills the nonce; the key slice panics
\* for a short key.
SaveCall ==
  /\ pc = "idle"
  /\ \E i \in 1..NInputs, csprng_ok \in BOOLEAN :
       LET arg == SaveInput(i)
       IN /\ call' = [NoCall EXCEPT !.op = "save", !.key = arg.key, !.entries = arg.entries,
                                    !.before = disk["dest"],
                                    !.data = IF csprng_ok THEN Images[i] ELSE <<>>]
          /\ IF ~csprng_ok THEN pc' = "returned" /\ result' = Err("Crypto")
             ELSE IF KeySlicePanics(arg.key) THEN pc' = "crashed" /\ result' = Panic
             ELSE pc' = save_order[1] /\ result' = NoResult
  /\ steps' = <<>>
  /\ UNCHANGED <<disk, saved, gcm, run>>

\* fs::create_dir_all(parent)?
SaveMkdir ==
  /\ pc = "mkdir"
  /\ \/ Proceed(save_order, "mkdir")
     \/ Return("mkdir", Err("Storage"))
  /\ UNCHANGED <<disk, call, saved, gcm, run>>

\* fs::write(&tmp_path, &data)?: the file is created or truncated
SaveCreate ==
  /\ pc = "create"
  /\ \/ /\ disk' = fs_create(disk, tmp_path("dest"))
        /\ Proceed(save_order, "create")
     \/ /\ Return("create", Err("Storage"))
        /\ UNCHANGED disk
  /\ UNCHANGED <<call, saved, gcm, run>>

\* fs::write(&tmp_path, &data)?: one more piece is written, or the write fails
SaveWrite ==
  /\ pc = "write"
  /\ \/ LET n == Min(WriteChunk, Len(call.data) - call.written)
        IN /\ disk' = fs_append(disk, tmp_path("dest"),
                                Slice(call.data, call.written, call.written + n))
           /\ call' = [call EXCEPT !.written = call.written + n]
           /\ IF call.written + n = Len(call.data)
              THEN Proceed(save_order, "write")
              ELSE UNCHANGED <<pc, steps, result>>
     \/ /\ Return("write", Err("Storage"))
        /\ UNCHANGED <<disk, call>>
  /\ UNCHANGED <<saved, gcm, run>>

\* fs::rename(&tmp_path, path)?; Ok(())
SaveRename ==
  /\ pc = "rename"
  /\ \/ /\ disk' = fs_rename(disk, tmp_path("dest"), "dest")
        /\ Return("rename", Ok(<<>>))
        /\ saved' = [valid |-> TRUE, key |-> call.key, entries |-> call.entries]
     \/ /\ Return("rename", Err("Storage"))
        /\ UNCHANGED <<disk, saved>>
  /\ UNCHANGED <<call, gcm, run>>

\* The process stops between two file-system calls of save_vault
Crash ==
  /\ pc \in {"mkdir", "create", "write", "rename"}
  /\ pc' = "crashed"
  /\ UNCHANGED <<disk, call, result, steps, saved, gcm, run>>

\* A new process starts on the files the old one left
Restart ==
  /\ pc = "crashed"
  /\ pc' = "idle"
  /\ call' = NoCall
  /\ result' = NoResult
  /\ steps' = <<>>
  /\ UNCHANGED <<disk, saved, gcm, run>>

\* The caller takes the result and goes on
Continue ==
  /\ pc = "returned"
  /\ pc' = "idle"
  /\ call' = NoCall
  /\ result' = NoResult
  /\ steps' = <<>>
  /\ UNCHANGED <<disk, saved, gcm, run>>

\* load_vault(path, key) is called
LoadCall ==
  /\ pc = "idle"
  /\ \E k \in 1..Len(KeysTab) :
       call' = [NoCall EXCEPT !.op = "load", !.key = KeysTab[k]]
  /\ pc' = load_order[1]
  /\ steps' = <<>>
  /\ result' = NoResult
  /\ UNCHANGED <<disk, saved, gcm, run>>

\* if !path.exists() { return Ok(Vec::new()); }
LoadExists ==
  /\ pc = "exists"
  /\ IF ~path_exists(disk, "dest")
     THEN Return("exists", Ok(<<>>))
     ELSE Proceed(load_order, "exists")
  /\ UNCHANGED <<disk, call, saved, gcm, run>>

\* let data = fs::read(path)?;
LoadRead ==
  /\ pc = "read"
  /\ \/ /\ disk["dest"].exists
        /\ call' = [call EXCEPT !.data = disk["dest"].data]
        /\ Proceed(load_order, "read")
     \/ /\ Return("read", Err("Storage"))
        /\ UNCHANGED call
  /\ UNCHANGED <<disk, saved, gcm, run>>

\* if data.len() < min_size
LoadMinSize ==
  /\ pc = "min_size"
  /\ IF Len(call.data) < min_size
     THEN Return("min_size", Err("Integrity"))
     ELSE Proceed(load_order, "min_size")
  /\ UNCHANGED <<disk, call, saved, gcm, run>>

\* if &data[0..8] != VAULT_MAGIC
LoadMagic ==
  /\ pc = "magic"
  /\ IF magic_mismatch(call.data)
     THEN Return("magic", Err("Integrity"))
     ELSE Proceed(load_order, "magic")
  /\ UNCHANGED <<disk, call, saved, gcm, run>>

\* if version != VAULT_FORMAT_VERSION
LoadVersion ==
  /\ pc = "version"
  /\ IF u32_from_le_bytes(Slice(call.data, 8, 12)) # VAULT_FORMAT_VERSION
     THEN Return("version", Err("Integrity"))
     ELSE Proceed(load_order, "version")
  /\ UNCHANGED <<disk, call, saved, gcm, run>>

\* if file_hmac != data[hmac_offset..]
LoadHmac ==
  /\ pc = "hmac"
  /\ IF file_hmac(call.key, call.data) # stored_hmac(call.data)
     THEN Return("hmac", Err("Integrity"))
     ELSE Proceed(load_order, "hmac")
  /\ UNCHANGED <<disk, call, saved, gcm, run>>

\* let nonce = data[pos..pos + AES_GCM_NONCE_SIZE].try_into()...: 12 bytes
\* always convert
LoadNonce ==
  /\ pc = "nonce"
  /\ Len(nonce_of(call.data)) = AES_GCM_NONCE_SIZE
  /\ Proceed(load_order, "nonce")
  /\ UNCHANGED <<disk, call, saved, gcm, run>>

\* let tag = data[pos..pos + AES_GCM_TAG_SIZE].try_into()...
LoadTag ==
  /\ pc = "tag"
  /\ Len(tag_of(call.data)) = AES_GCM_TAG_SIZE
  /\ Proceed(load_order, "tag")
  /\ UNCHANGED <<disk, call, saved, gcm, run>>

\* let ct_len = ...; if pos + ct_len > hmac_offset
LoadCtLen ==
  /\ pc = "ct_len"
  /\ IF ct_exceeds(call.data)
     THEN Return("ct_len", Err("Integrity"))
     ELSE Proceed(load_order, "ct_len")
  /\ UNCHANGED <<disk, call, saved, gcm, run>>

\* let aes_key = key[..AES_KEY_SIZE]...: panics for a short key
LoadKey ==
  /\ pc = "key"
  /\ IF KeySlicePanics(call.key)
     THEN steps' = Append(steps, "key") /\ pc' = "crashed" /\ result' = Panic
     ELSE Proceed(load_order, "key")
  /\ UNCHANGED <<disk, call, saved, gcm, run>>

\* let plaintext = aes_gcm_decrypt(...)?;
LoadDecrypt ==
  /\ pc = "decrypt"
  /\ \E opened \in {file_decrypt(call.key, call.data)} :
       IF ~opened.ok
       THEN Return("decrypt", opened) /\ UNCHANGED call
       ELSE Proceed(load_order, "decrypt") /\ call' = [call EXCEPT !.plaintext = opened.value]
  /\ UNCHANGED <<disk, saved, gcm, run>>

\* format::deserialize_entries(&plaintext)
LoadDeserialize ==
  /\ pc = "deserialize"
  /\ Return("deserialize", deserialize_entries(call.plaintext))
  /\ UNCHANGED <<disk, call, saved, gcm, run>>

Next ==
  \/ SaveCall \/ SaveMkdir \/ SaveCreate \/ SaveWrite \/ SaveRename
  \/ Crash \/ Restart \/ Continue
  \/ LoadCall \/ LoadExists \/ LoadRead \/ LoadMinSize \/ LoadMagic \/ LoadVersion
  \/ LoadHmac \/ LoadNonce \/ LoadTag \/ LoadCtLen \/ LoadKey \/ LoadDecrypt
  \/ LoadDeserialize

Spec == Init /\ [][Next]_vars

-----------------------------------------------------------------------------
(* aes_gcm_encrypt, then aes_gcm_decrypt statement by statement            *)

\* Plaintexts have 0..MaxPlain bytes
MaxPlain == 17

\* The plaintext of n bytes
plain_bytes(n) == SubSeq([i \in 1..n |-> (i * 41 + 7) % 256], 1, n)

\* No AAD, the AAD of the vault, an AAD of more than one block
AadTab == <<<<>>, VAULT_MAGIC, Fill(AES_BLOCK_SIZE + 1, 3)>>

\* What aes_gcm_decrypt is given: the output of aes_gcm_encrypt and its other
\* arguments unchanged, or with one of them changed
Handed == {"same", "ciphertext", "tag", "aad", "key", "nonce"}

\* An order of aes_gcm_decrypt that decrypts before it checks the tag
decrypt_order_late == <<"setup", "ctr_init", "ctr", "tag", "return">>

\* The statements of aes_gcm_decrypt in their order (lines 260-296)
decrypt_order == <<"setup", "tag", "ctr_init", "ctr", "return">>

InitGcm ==
  /\ disk = [dest |-> Absent, tmp |-> Absent]
  /\ pc = "idle"
  /\ call = NoCall
  /\ result = NoResult
  /\ steps = <<>>
  /\ saved = NotSaved
  /\ gcm = GcmIdle
  /\ run = RunIdle

\* aes_gcm_encrypt(key, nonce, plaintext, aad)
GcmEncrypt ==
  /\ gcm.pc = "idle"
  /\ \E k \in 1..2, n \in 1..Len(NonceTab), len \in 0..MaxPlain, a \in 1..Len(AadTab) :
       \E enc \in {aes_gcm_encrypt(KeysTab[k], NonceTab[n], plain_bytes(len), AadTab[a])} :
         gcm' = [GcmIdle EXCEPT !.pc = "sealed",
                                !.sealed = [key |-> KeysTab[k], nonce |-> NonceTab[n],
                                            plaintext |-> plain_bytes(len), aad |-> AadTab[a],
                                            ciphertext |-> enc.ciphertext, tag |-> enc.tag]]
  /\ UNCHANGED <<disk, pc, call, result, steps, saved, run>>

\* aes_gcm_decrypt(key, nonce, ciphertext, tag, aad) is called
GcmDecryptCall ==
  /\ gcm.pc = "sealed"
  /\ \E how \in Handed :
       /\ how = "ciphertext" => Len(gcm.sealed.ciphertext) > 0
       /\ gcm' = [gcm EXCEPT
            !.pc = decrypt_order[1],
            !.key = IF how # "key" THEN gcm.sealed.key
                    ELSE IF gcm.sealed.key = Key1 THEN Key2 ELSE Key1,
            !.nonce = IF how # "nonce" THEN gcm.sealed.nonce
                      ELSE IF gcm.sealed.nonce = NonceTab[1] THEN NonceTab[2] ELSE NonceTab[1],
            !.ciphertext = Flip(gcm.sealed.ciphertext,
                                IF how = "ciphertext" THEN Len(gcm.sealed.ciphertext) ELSE 0),
            !.tag = Flip(gcm.sealed.tag, IF how = "tag" THEN AES_GCM_TAG_SIZE ELSE 0),
            !.aad = IF how = "aad" THEN gcm.sealed.aad \o <<0>> ELSE gcm.sealed.aad]
  /\ UNCHANGED <<disk, pc, call, result, steps, saved, run>>

\* let round_keys = key_expansion(key); h; j0; s0 (lines 260-271)
GcmSetup ==
  /\ gcm.pc = "setup"
  /\ \E round_keys \in {key_expansion(gcm.key)} :
       gcm' = [gcm EXCEPT !.pc = StageAfter(decrypt_order, "setup"),
                          !.round_keys = round_keys,
                          !.h = hash_subkey(round_keys),
                          !.s0 = aes_encrypt_block(J0(gcm.nonce), round_keys)]
  /\ UNCHANGED <<disk, pc, call, result, steps, saved, run>>

\* let computed_tag = compute_tag(...); if !constant_time_eq(...) { return Err }
GcmTag ==
  /\ gcm.pc = "tag"
  /\ \E computed \in {compute_tag(gcm.h, gcm.aad, gcm.ciphertext, gcm.s0)} :
       IF ~constant_time_eq(computed, gcm.tag)
       THEN gcm' = [gcm EXCEPT !.pc = "returned", !.computed_tag = computed,
                               !.result = Err("Crypto")]
       ELSE gcm' = [gcm EXCEPT !.pc = StageAfter(decrypt_order, "tag"),
                               !.computed_tag = computed]
  /\ UNCHANGED <<disk, pc, call, result, steps, saved, run>>

\* let mut ctr = j0; inc_counter(&mut ctr); let mut plaintext; let mut offset = 0
GcmCtrInit ==
  /\ gcm.pc = "ctr_init"
  /\ gcm' = [gcm EXCEPT !.pc = StageAfter(decrypt_order, "ctr_init"),
                        !.ctr = inc_counter(J0(gcm.nonce)),
                        !.plaintext = <<>>,
                        !.offset = 0]
  /\ UNCHANGED <<disk, pc, call, result, steps, saved, run>>

\* One test of "while offset < ciphertext.len()" and, when it holds, one
\* iteration: a keystream block, the counter, the bytes pushed
GcmCtr ==
  /\ gcm.pc = "ctr"
  /\ IF gcm.offset < Len(gcm.ciphertext)
     THEN gcm' = [gcm EXCEPT
            !.plaintext = @ \o ctr_block(gcm.round_keys, gcm.ctr, gcm.ciphertext, gcm.offset),
            !.ctr = inc_counter(@),
            !.offset = @ + Min(Len(gcm.ciphertext) - gcm.offset, AES_BLOCK_SIZE),
            !.keystream_blocks = @ + 1]
     ELSE gcm' = [gcm EXCEPT !.pc = StageAfter(decrypt_order, "ctr")]
  /\ UNCHANGED <<disk, pc, call, result, steps, saved, run>>

\* Ok(plaintext)
GcmReturn ==
  /\ gcm.pc = "return"
  /\ gcm' = [gcm EXCEPT !.pc = "returned", !.result = Ok(gcm.plaintext)]
  /\ UNCHANGED <<disk, pc, call, result, steps, saved, run>>

\* The caller takes the result
GcmDone ==
  /\ gcm.pc = "returned"
  /\ gcm' = GcmIdle
  /\ UNCHANGED <<disk, pc, call, result, steps, saved, run>>

NextGcm ==
  \/ GcmEncrypt \/ GcmDecryptCall \/ GcmSetup \/ GcmTag \/ GcmCtrInit \/ GcmCtr
  \/ GcmReturn \/ GcmDone

SpecGcm == InitGcm /\ [][NextGcm]_vars

-----------------------------------------------------------------------------
(* Properties of save_vault and load_vault, checked under Spec             *)

\* load_vault has returned
LoadReturned == call.op = "load" /\ pc = "returned"

\* load_vault got the bytes of the file: fs::read succeeded
FileWasRead == call.op = "load" /\ Len(steps) >= 2 /\ result.err # "Storage"

\* The stages of load_vault that read the fields behind the version, decrypt
\* and decode
AfterHmac == {"nonce", "tag", "ct_len", "key", "decrypt", "deserialize"}

\* The entry count announced by the first four bytes of a plaintext
announced(plaintext) == u32_from_le_bytes(Slice(plaintext, 0, 4))

\* C1: while save_vault runs, after it returns and after the process stops at
\* any point of it, the destination holds the complete new file once the
\* rename has happened and exactly what it held before the call until then;
\* the partly written bytes are only ever in the temporary file.
C1_AtomicSave ==
  call.op = "save" =>
    IF pc = "returned" /\ result.ok
    THEN disk["dest"] = Present(call.data) /\ Len(call.data) >= min_size
    ELSE disk["dest"] = call.before

\* The process stopped in the middle of the write: part of the new file is in
\* the temporary file and the destination still holds the previous file
C1_Witness ==
  /\ call.op = "save" /\ pc = "crashed"
  /\ disk["tmp"].exists
  /\ Len(disk["tmp"].data) > 0 /\ Len(disk["tmp"].data) < Len(call.data)
  /\ call.before.exists /\ disk["dest"] = call.before

\* C2: in load_vault every stage that reads the nonce, the tag or the
\* ciphertext length, slices the key, decrypts or decodes runs after the HMAC
\* stage, on a file whose HMAC matched; and what runs before the HMAC stage is
\* finding and reading the file, then the length, magic and version checks in
\* that order.
C2_HmacFirst ==
  call.op = "load" =>
    \A i \in 1..Len(steps) :
      /\ steps[i] \in AfterHmac =>
           /\ \E j \in 1..(i - 1) : steps[j] = "hmac"
           /\ file_hmac(call.key, call.data) = stored_hmac(call.data)
      /\ steps[i] = "hmac" =>
           SubSeq(steps, 1, i - 1) = <<"exists", "read", "min_size", "magic", "version">>

\* A file with the right magic and version whose HMAC does not match: the load
\* ended at the HMAC stage and no later stage ran
C2_Witness ==
  /\ LoadReturned
  /\ steps = <<"exists", "read", "min_size", "magic", "version", "hmac">>
  /\ result = Err("Integrity")
  /\ Len(call.data) > min_size

\* C3: a load_vault that returns Ok either found no file, or ran every
\* stage and returns as many entries as the plaintext announces, which encode
\* to the bytes of the plaintext they were decoded from; a load_vault that
\* returns an error returns no entry.
C3_AllOrNothing ==
  LoadReturned =>
    IF result.ok
    THEN \/ steps = <<"exists">> /\ result.value = <<>>
         \/ /\ steps = load_order
            /\ Len(result.value) = announced(call.plaintext)
            /\ \E bytes \in {serialize_entries(result.value)} :
                 bytes = SubSeq(call.plaintext, 1, Len(bytes))
    ELSE result.value = <<>>

\* An authentic file whose plaintext announces two entries and holds one that
\* decodes: the load ran every stage and ended with an error
C3_Witness ==
  /\ LoadReturned
  /\ steps = load_order
  /\ result = Err("Integrity")
  /\ Len(call.plaintext) >= 4
  /\ announced(call.plaintext) = 2
  /\ deserialize_entries([call.plaintext EXCEPT ![1] = 1]).ok

C6_WrongKeyFails ==
  (LoadReturned /\ saved.valid /\ call.key # saved.key) => ~result.ok

\* C7: load_vault returns an integrity error for every file it reads whose
\* first 8 bytes are not VAULT_MAGIC, under every key.
C7_MagicRejected ==
  (LoadReturned /\ FileWasRead
   /\ (Len(call.data) < 8 \/ SubSeq(call.data, 1, 8) # VAULT_MAGIC)) =>
    result = Err("Integrity")

\* A file that differs from a file of save_vault in its magic alone, HMAC
\* included, loaded with the key that sealed it: rejected at the magic stage
C7_Witness ==
  /\ LoadReturned
  /\ call.data = ForeignFiles[4] /\ call.key = Key1
  /\ steps = <<"exists", "read", "min_size", "magic">>
  /\ result = Err("Integrity")

\* C8: a save_vault or load_vault called with a key shorter than AES_KEY_SIZE
\* does not panic.
C8_ShortKeyNoPanic ==
  (call.op \in {"save", "load"} /\ Len(call.key) < AES_KEY_SIZE) => result # Panic

\* C30: whenever save_vault returns an error (the nonce could not be generated,
\* the parent directory could not be created, the temporary file could not be
\* written, or the rename failed), the destination file is what it was when
\* save_vault was called.
C30_FailedSaveLeavesDest ==
  (pc = "returned" /\ call.op = "save" /\ ~result.ok) => disk["dest"] = call.before

\* save_vault returned an error after part of the data was written, over an
\* existing destination
C30_Witness ==
  /\ pc = "returned" /\ call.op = "save" /\ result = Err("Storage")
  /\ steps = <<"mkdir", "create", "write">>
  /\ call.written > 0 /\ call.written < Len(call.data)
  /\ call.before.exists
  /\ disk["tmp"].exists /\ Len(disk["tmp"].data) = call.written

-----------------------------------------------------------------------------
(* Properties of aes_gcm_encrypt and aes_gcm_decrypt, checked under SpecGcm *)

\* aes_gcm_decrypt was given exactly what aes_gcm_encrypt was given and returned
HandedSame ==
  /\ gcm.key = gcm.sealed.key /\ gcm.nonce = gcm.sealed.nonce
  /\ gcm.ciphertext = gcm.sealed.ciphertext /\ gcm.tag = gcm.sealed.tag
  /\ gcm.aad = gcm.sealed.aad

\* C9: aes_gcm_decrypt generates a keystream block, or pushes a plaintext byte,
\* only after it has computed the tag and found it equal to the given one; a
\* call whose computed tag differs from the given one returns Err(Crypto) with
\* no keystream block generated and no plaintext byte pushed.
C9_TagBeforeKeystream ==
  /\ (gcm.keystream_blocks > 0 \/ gcm.plaintext # <<>> \/ gcm.pc \in {"ctr_init", "ctr", "return"})
       => gcm.computed_tag = gcm.tag
  /\ (gcm.pc = "returned" /\ gcm.computed_tag # gcm.tag) =>
       /\ gcm.result = Err("Crypto")
       /\ gcm.keystream_blocks = 0
       /\ gcm.plaintext = <<>>

\* A ciphertext of more than one block with its last byte changed: the call
\* returned the error and generated no keystream block
C9_Witness ==
  /\ gcm.pc = "returned"
  /\ Len(gcm.ciphertext) > AES_BLOCK_SIZE
  /\ gcm.ciphertext # gcm.sealed.ciphertext
  /\ gcm.computed_tag # gcm.tag
  /\ gcm.result = Err("Crypto")
  /\ gcm.keystream_blocks = 0

\* C10: the ciphertext of aes_gcm_encrypt is as long as the plaintext, and
\* aes_gcm_decrypt given the key, nonce and AAD of the encryption and its
\* ciphertext and tag returns Ok with the plaintext.
C10_GcmRoundTrip ==
  /\ Len(gcm.sealed.ciphertext) = Len(gcm.sealed.plaintext)
  /\ (gcm.pc = "returned" /\ HandedSame) => gcm.result = Ok(gcm.sealed.plaintext)

\* A plaintext of one block and one byte with an AAD of one block and one byte
\* came back from its ciphertext
C10_Witness ==
  /\ gcm.pc = "returned" /\ HandedSame
  /\ Len(gcm.sealed.plaintext) = AES_BLOCK_SIZE + 1
  /\ Len(gcm.sealed.aad) = AES_BLOCK_SIZE + 1
  /\ gcm.keystream_blocks = 2
  /\ gcm.result = Ok(gcm.sealed.plaintext)

\* C11: aes_gcm_decrypt given the key and nonce of the encryption, and a
\* ciphertext with one byte changed, a tag with one byte changed or another AAD,
\* returns Err(Crypto).
C11_TamperRejected ==
  (/\ gcm.pc = "returned"
   /\ gcm.key = gcm.sealed.key /\ gcm.nonce = gcm.sealed.nonce
   /\ \/ gcm.ciphertext # gcm.sealed.ciphertext
      \/ gcm.tag # gcm.sealed.tag
      \/ gcm.aad # gcm.sealed.aad)
    => gcm.result = Err("Crypto")

-----------------------------------------------------------------------------
(* The two comparisons of authentication values: constant_time_eq of       *)
(* aes_gcm.rs statement by statement, and the != of load_vault             *)

\* The variables of save_vault, load_vault and aes_gcm_decrypt, at rest
Quiet ==
  /\ disk = [dest |-> Absent, tmp |-> Absent]
  /\ pc = "idle"
  /\ call = NoCall
  /\ result = NoResult
  /\ steps = <<>>
  /\ saved = NotSaved
  /\ gcm = GcmIdle

\* A tag, and the tags it is compared with: itself; one bit changed in one
\* byte, for every byte; the top bit of the first or of the last byte changed;
\* two bytes changed by the same bits; every byte changed
TagA == SubSeq([i \in 1..AES_GCM_TAG_SIZE |-> 16 * i - 1], 1, AES_GCM_TAG_SIZE)
TagOthers ==
  {TagA}
  \cup {Flip(TagA, p) : p \in 1..AES_GCM_TAG_SIZE}
  \cup {[TagA EXCEPT ![p] = Xor(@, 128)] : p \in {1, AES_GCM_TAG_SIZE}}
  \cup {[TagA EXCEPT ![3] = Xor(@, 5), ![9] = Xor(@, 5)]}
  \cup {SubSeq([i \in 1..AES_GCM_TAG_SIZE |-> Xor(TagA[i], 255)], 1, AES_GCM_TAG_SIZE)}

\* A computed HMAC, and the stored HMACs it is compared with: itself, and one
\* bit changed in one byte, for every byte
HmacA == SubSeq([i \in 1..HMAC_SIZE |-> (7 * i) % 256], 1, HMAC_SIZE)
HmacOthers == {HmacA} \cup {Flip(HmacA, p) : p \in 1..HMAC_SIZE}

\* The number of leading positions of a and b up to and including the first
\* one where they differ; all of them when they are equal
first_difference(a, b) ==
  IF a = b THEN Len(a)
  ELSE CHOOSE i \in 1..Len(a) : a[i] # b[i] /\ \A j \in 1..(i - 1) : a[j] = b[j]

InitCmp == Quiet /\ run = RunIdle

\* constant_time_eq(a, b) is called: let mut diff = 0u8
CteCall ==
  /\ run.pc = "idle"
  /\ \E b \in TagOthers :
       run' = [pc |-> "cte_loop", a |-> TagA, b |-> b, diff |-> 0, i |-> 0,
               iterations |-> 0, result |-> FALSE]
  /\ UNCHANGED <<disk, pc, call, result, steps, saved, gcm>>

\* One iteration of "for i in 0..16": diff |= a[i] ^ b[i]
CteIter ==
  /\ run.pc = "cte_loop"
  /\ run.i < 16
  /\ run' = [run EXCEPT !.diff = Or(@, Xor(run.a[run.i + 1], run.b[run.i + 1])),
                        !.i = @ + 1,
                        !.iterations = @ + 1]
  /\ UNCHANGED <<disk, pc, call, result, steps, saved, gcm>>

\* The loop is over: diff == 0
CteTest ==
  /\ run.pc = "cte_loop"
  /\ run.i >= 16
  /\ run' = [run EXCEPT !.pc = "cte_done", !.result = (run.diff = 0)]
  /\ UNCHANGED <<disk, pc, call, result, steps, saved, gcm>>

\* file_hmac != data[hmac_offset..] in load_vault: the equality of byte slices
\* of the standard library, which compares the memory of the two slices and
\* promises nothing about how far it looks once it has met a difference
SliceNe ==
  /\ run.pc = "idle"
  /\ \E stored \in HmacOthers :
       \E examined \in first_difference(HmacA, stored)..HMAC_SIZE :
         run' = [pc |-> "ne_done", a |-> HmacA, b |-> stored, examined |-> examined,
                 result |-> (HmacA # stored)]
  /\ UNCHANGED <<disk, pc, call, result, steps, saved, gcm>>

\* The caller takes the result
CmpDone ==
  /\ run.pc \in {"cte_done", "ne_done"}
  /\ run' = RunIdle
  /\ UNCHANGED <<disk, pc, call, result, steps, saved, gcm>>

NextCmp == CteCall \/ CteIter \/ CteTest \/ SliceNe \/ CmpDone

SpecCmp == InitCmp /\ [][NextCmp]_vars

\* C12: the comparison of the computed with the stored HMAC in load_vault
\* examines all HMAC_SIZE byte positions, wherever the first difference is.
C12_HmacConstantTime ==
  run.pc = "ne_done" => run.examined = HMAC_SIZE

\* C13: constant_time_eq returns after exactly 16 iterations of its loop, with
\* the OR of the XORs of all 16 byte pairs in diff, and returns true exactly
\* when the two tags are equal.
C13_ConstantTimeEq ==
  /\ run.pc = "cte_loop" => run.iterations = run.i /\ run.i <= 16
  /\ run.pc = "cte_done" =>
       /\ run.iterations = 16
       /\ run.result = (run.a = run.b)
       /\ run.result = constant_time_eq(run.a, run.b)
       /\ (run.diff = 0) = (\A i \in 1..16 : run.a[i] = run.b[i])

\* Two tags that differ in their first byte alone: all 16 iterations ran and
\* the result is false
C13_Witness ==
  /\ run.pc = "cte_done"
  /\ run.a[1] # run.b[1] /\ SubSeq(run.a, 2, 16) = SubSeq(run.b, 2, 16)
  /\ run.iterations = 16
  /\ run.result = FALSE

-----------------------------------------------------------------------------
(* storage/format.rs, deserialize_entries and deserialize_entry statement  *)
(* by statement, on the integer widths of the build                        *)

\* What the build fixes: the width of usize (32 on i686, 64 on x86_64) and
\* whether an overflowing addition panics (debug profile) or wraps (release)
Builds == {[usize_bits |-> w, overflow_checks |-> c] : w \in {32, 64}, c \in BOOLEAN}

\* pos + n on usize overflows, for the u32 n whose little-endian bytes are b
usize_add_overflows(build, pos, b) ==
  /\ build.usize_bits = 32
  /\ (b[3] + 256 * b[4]) + ((b[1] + 256 * b[2] + pos) \div 65536) >= 65536

\* pos.wrapping_add(n) on a 32-bit usize
usize_wrapping_add(pos, b) ==
  ((b[1] + 256 * b[2] + pos) % 65536)
  + 65536 * (((b[3] + 256 * b[4]) + ((b[1] + 256 * b[2] + pos) \div 65536)) % 65536)

\* "if pos + n > data.len() { return Err(..) }" followed by
\* "&data[pos..pos + n]": the end of the slice, an integrity error, or a panic
\* (of the addition under overflow checks, of the slice when its end wrapped
\* below its start)
checked_slice(build, data, pos, b) ==
  IF usize_add_overflows(build, pos, b)
  THEN IF build.overflow_checks THEN [kind |-> "panic", end |-> 0]
       ELSE The({IF end > Len(data) THEN [kind |-> "err", end |-> 0]
                 ELSE IF end < pos THEN [kind |-> "panic", end |-> 0]
                 ELSE [kind |-> "ok", end |-> end]
                 : end \in {usize_wrapping_add(pos, b)}})
  ELSE The({IF end > Len(data) THEN [kind |-> "err", end |-> 0]
            ELSE [kind |-> "ok", end |-> end]
            : end \in {pos + u32_from_le_bytes(b)}})

\* An entry whose source_app has 65536 bytes ("a" repeated)
BigEntry ==
  [timestamp |-> Fill(8, 0), entry_type |-> "Text", flags |-> [pinned |-> FALSE],
   source_app |-> Fill(65536, 97), content |-> <<104, 105>>]

\* The entry lists handed to serialize_entries: every list of 0..MaxEntries
\* entries of EntryPool, and the list of the one BigEntry
CodecLists ==
  {<<>>}
  \cup UNION {{SubSeq([i \in 1..n |-> EntryPool[f[i]]], 1, n)
               : f \in [1..n -> 1..Len(EntryPool)]} : n \in 1..MaxEntries}
  \cup {<<BigEntry>>}

\* serialize_entries of the first MaxEntries entries of EntryPool, the buffer
\* the damaged buffers are made from
CodecImage == serialize_entries(Entries(Min(MaxEntries, Len(EntryPool))))
CodecCount == Min(MaxEntries, Len(EntryPool))

\* The offset in CodecImage of the body of entry k (its size prefix is the
\* four bytes before it)
entry_start(k) == Len(serialize_entries(Entries(k - 1))) + 4
entry_len(k) == Len(serialize_entry(EntryPool[k]))

\* data with the bytes at offset at overwritten
Replace(data, at, bytes) ==
  Slice(data, 0, at) \o bytes \o Slice(data, at + Len(bytes), Len(data))

\* Buffers that are not the output of serialize_entries, by what is wrong:
\* "short" (fewer than 4 bytes), "type" (a type tag of 3 or 255), "past_end"
\* (cut anywhere after the count; a count one too large or 0xFFFFFFFF; a size
\* prefix, a content_len or a source_len of all ones), "size" (a size prefix
\* one more or one less than the entry), "trailing" (one byte after the last
\* entry)
CodecDamaged ==
  {[kind |-> IF k < 4 THEN "short" ELSE "past_end", entries |-> <<>>,
    data |-> Slice(CodecImage, 0, k)] : k \in 0..(Len(CodecImage) - 1)}
  \cup {[kind |-> "type", entries |-> <<>>,
         data |-> Replace(CodecImage, entry_start(k) + 8, <<v>>)]
        : k \in 1..CodecCount, v \in {3, 255}}
  \cup {[kind |-> "size", entries |-> <<>>,
         data |-> Replace(CodecImage, entry_start(k) - 4, u32_to_le_bytes(entry_len(k) + d))]
        : k \in 1..CodecCount, d \in {-1, 1}}
  \cup {[kind |-> "past_end", entries |-> <<>>, data |-> d]
        : d \in {Replace(CodecImage, 0, u32_to_le_bytes(CodecCount + 1)),
                 Replace(CodecImage, 0, Fill(4, 255)),
                 <<1, 0, 0, 0, 255, 255, 255, 255>>}
             \cup {Replace(CodecImage, entry_start(k) - 4, Fill(4, 255)) : k \in 1..CodecCount}
             \cup {Replace(CodecImage, entry_start(k) + 10, Fill(2, 255)) : k \in 1..CodecCount}
             \cup {Replace(CodecImage, entry_start(k) + 12 + Len(EntryPool[k].source_app),
                           Fill(4, 255)) : k \in 1..CodecCount}}
  \cup {[kind |-> "trailing", entries |-> <<>>, data |-> CodecImage \o <<0>>]}

\* What deserialize_entries is called with
CodecInputs ==
  {[kind |-> "pristine", entries |-> l, data |-> serialize_entries(l)] : l \in CodecLists}
  \cup CodecDamaged

InitCodec == Quiet /\ run = RunIdle

\* deserialize_entries(data) is called
CodecCall ==
  /\ run.pc = "idle"
  /\ \E input \in CodecInputs, build \in Builds :
       run' = [pc |-> "count", build |-> build, kind |-> input.kind,
               entries |-> input.entries, data |-> input.data,
               left |-> 0, pos |-> 0, size_bytes |-> <<>>, entry_size |-> 0,
               slice |-> <<>>, epos |-> 0,
               entry |-> [timestamp |-> <<>>, entry_type |-> "None",
                          flags |-> [pinned |-> FALSE], source_app |-> <<>>,
                          content |-> <<>>],
               source_len |-> 0, out |-> <<>>, result |-> NoResult,
               read |-> [from |-> 0, to |-> 0, of |-> 0], iterations |-> 0]
  /\ UNCHANGED <<disk, pc, call, result, steps, saved, gcm>>

\* return r from deserialize_entries (or unwind with a panic)
CodecReturn(r) == [run EXCEPT !.pc = "done", !.result = r]

\* the read of data[from..to] of a buffer of len bytes
Read(from, to, len) == [from |-> from, to |-> to, of |-> len]

\* format.rs 143-149: the length check, count, with_capacity, pos = 4
DeCount ==
  /\ run.pc = "count"
  /\ run' = IF Len(run.data) < 4 THEN CodecReturn(Err("Integrity"))
            ELSE [run EXCEPT !.pc = "iter",
                             !.left = u32_from_le_bytes(Slice(run.data, 0, 4)),
                             !.pos = 4,
                             !.read = Read(0, 4, Len(run.data))]
  /\ UNCHANGED <<disk, pc, call, result, steps, saved, gcm>>

\* format.rs 151-156 and 169: the head of one iteration of "for _ in 0..count",
\* the check before the size prefix, entry_size, pos += 4; Ok(entries) after
\* the last iteration
DeIter ==
  /\ run.pc = "iter"
  /\ run' = IF run.left = 0 THEN CodecReturn(Ok(run.out))
            ELSE IF run.pos + 4 > Len(run.data) THEN CodecReturn(Err("Integrity"))
            ELSE [run EXCEPT !.pc = "body",
                             !.size_bytes = Slice(run.data, run.pos, run.pos + 4),
                             !.entry_size = u32_from_le_bytes(Slice(run.data, run.pos, run.pos + 4)),
                             !.pos = run.pos + 4,
                             !.read = Read(run.pos, run.pos + 4, Len(run.data)),
                             !.iterations = @ + 1]
  /\ UNCHANGED <<disk, pc, call, result, steps, saved, gcm>>

\* format.rs 158-161: the check of pos + entry_size and the slice handed to
\* deserialize_entry, where pos = 0
DeBody ==
  /\ run.pc = "body"
  /\ \E s \in {checked_slice(run.build, run.data, run.pos, run.size_bytes)} :
       run' = CASE s.kind = "panic" -> CodecReturn(Panic)
                [] s.kind = "err" -> CodecReturn(Err("Integrity"))
                [] OTHER -> [run EXCEPT !.pc = "timestamp",
                                        !.slice = Slice(run.data, run.pos, s.end),
                                        !.epos = 0,
                                        !.read = Read(run.pos, s.end, Len(run.data))]
  /\ UNCHANGED <<disk, pc, call, result, steps, saved, gcm>>

\* format.rs 68-72: timestamp
EnTimestamp ==
  /\ run.pc = "timestamp"
  /\ run' = IF Len(run.slice) < run.epos + 8 THEN CodecReturn(Err("Integrity"))
            ELSE [run EXCEPT !.pc = "type",
                             !.entry.timestamp =
                                i64_from_le_bytes(Slice(run.slice, run.epos, run.epos + 8)),
                             !.epos = run.epos + 8,
                             !.read = Read(run.epos, run.epos + 8, Len(run.slice))]
  /\ UNCHANGED <<disk, pc, call, result, steps, saved, gcm>>

\* format.rs 75-80: entry_type
EnType ==
  /\ run.pc = "type"
  /\ run' = IF Len(run.slice) < run.epos + 1 THEN CodecReturn(Err("Integrity"))
            ELSE IF EntryType_from_u8(run.slice[run.epos + 1]) = "None"
            THEN [CodecReturn(Err("Integrity"))
                  EXCEPT !.read = Read(run.epos, run.epos + 1, Len(run.slice))]
            ELSE [run EXCEPT !.pc = "flags",
                             !.entry.entry_type = EntryType_from_u8(run.slice[run.epos + 1]),
                             !.epos = run.epos + 1,
                             !.read = Read(run.epos, run.epos + 1, Len(run.slice))]
  /\ UNCHANGED <<disk, pc, call, result, steps, saved, gcm>>

\* format.rs 83-87: flags
EnFlags ==
  /\ run.pc = "flags"
  /\ run' = IF Len(run.slice) < run.epos + 1 THEN CodecReturn(Err("Integrity"))
            ELSE [run EXCEPT !.pc = "source_len",
                             !.entry.flags = EntryFlags_from_byte(run.slice[run.epos + 1]),
                             !.epos = run.epos + 1,
                             !.read = Read(run.epos, run.epos + 1, Len(run.slice))]
  /\ UNCHANGED <<disk, pc, call, result, steps, saved, gcm>>

\* format.rs 90-94: source_len
EnSourceLen ==
  /\ run.pc = "source_len"
  /\ run' = IF Len(run.slice) < run.epos + 2 THEN CodecReturn(Err("Integrity"))
            ELSE [run EXCEPT !.pc = "source",
                             !.source_len =
                                u16_from_le_bytes(Slice(run.slice, run.epos, run.epos + 2)),
                             !.epos = run.epos + 2,
                             !.read = Read(run.epos, run.epos + 2, Len(run.slice))]
  /\ UNCHANGED <<disk, pc, call, result, steps, saved, gcm>>

\* format.rs 97-101: source_app
EnSource ==
  /\ run.pc = "source"
  /\ run' = IF Len(run.slice) < run.epos + run.source_len THEN CodecReturn(Err("Integrity"))
            ELSE [run EXCEPT !.pc = "content_len",
                             !.entry.source_app =
                                from_utf8_lossy(Slice(run.slice, run.epos,
                                                      run.epos + run.source_len)),
                             !.epos = run.epos + run.source_len,
                             !.read = Read(run.epos, run.epos + run.source_len, Len(run.slice))]
  /\ UNCHANGED <<disk, pc, call, result, steps, saved, gcm>>

\* format.rs 104-108: content_len
EnContentLen ==
  /\ run.pc = "content_len"
  /\ run' = IF Len(run.slice) < run.epos + 4 THEN CodecReturn(Err("Integrity"))
            ELSE [run EXCEPT !.pc = "content",
                             !.size_bytes = Slice(run.slice, run.epos, run.epos + 4),
                             !.epos = run.epos + 4,
                             !.read = Read(run.epos, run.epos + 4, Len(run.slice))]
  /\ UNCHANGED <<disk, pc, call, result, steps, saved, gcm>>

\* format.rs 111-126: the check of pos + content_len, content, pos += content_len
EnContent ==
  /\ run.pc = "content"
  /\ \E s \in {checked_slice(run.build, run.slice, run.epos, run.size_bytes)} :
       run' = CASE s.kind = "panic" -> CodecReturn(Panic)
                [] s.kind = "err" -> CodecReturn(Err("Integrity"))
                [] OTHER -> [run EXCEPT !.pc = "push",
                                        !.entry.content =
                                           from_utf8_lossy(Slice(run.slice, run.epos, s.end)),
                                        !.epos = s.end,
                                        !.read = Read(run.epos, s.end, Len(run.slice))]
  /\ UNCHANGED <<disk, pc, call, result, steps, saved, gcm>>

\* format.rs 162-166: consumed against entry_size, push, pos += entry_size
DePush ==
  /\ run.pc = "push"
  /\ run' = IF run.epos # run.entry_size THEN CodecReturn(Err("Integrity"))
            ELSE [run EXCEPT !.pc = "iter",
                             !.out = Append(run.out, run.entry),
                             !.pos = run.pos + run.entry_size,
                             !.left = run.left - 1]
  /\ UNCHANGED <<disk, pc, call, result, steps, saved, gcm>>

\* The caller takes the result
CodecDone ==
  /\ run.pc = "done"
  /\ run' = RunIdle
  /\ UNCHANGED <<disk, pc, call, result, steps, saved, gcm>>

NextCodec ==
  \/ CodecCall \/ DeCount \/ DeIter \/ DeBody
  \/ EnTimestamp \/ EnType \/ EnFlags \/ EnSourceLen \/ EnSource
  \/ EnContentLen \/ EnContent \/ DePush \/ CodecDone

SpecCodec == InitCodec /\ [][NextCodec]_vars

\* C14: for every list of records, deserialize_entries(serialize_entries(list))
\* succeeds and returns the records of the list, as many, in the same order,
\* with the same timestamp, type, pinned flag, source application and content
C14_CodecRoundTrip ==
  (run.pc = "done" /\ run.kind = "pristine") => run.result = Ok(run.entries)

-----------------------------------------------------------------------------
(* crypto/sha256.rs and crypto/pbkdf2.rs called on their own: a digest fed *)
(* in chunks, hmac_sha256 and pbkdf2_hmac_sha256                           *)

\* Messages have up to MaxShaLen bytes and are fed in at most MaxChunks updates
MaxShaLen == 130
MaxChunks == 3
\* pbkdf2_hmac_sha256 is called with 1..MaxIterations iterations and a key_len
\* of up to MaxKeyLen
MaxIterations == 3
MaxKeyLen == 65

\* b"abc" and the 56-byte message of test_sha256_long
MsgAbc == <<97, 98, 99>>
MsgNist56 ==
  <<97, 98, 99, 100, 98, 99, 100, 101, 99, 100, 101, 102, 100, 101, 102,
    103, 101, 102, 103, 104, 102, 103, 104, 105, 103, 104, 105, 106, 104, 105,
    106, 107, 105, 106, 107, 108, 106, 107, 108, 109, 107, 108, 109, 110, 108,
    109, 110, 111, 109, 110, 111, 112, 110, 111, 112, 113>>

\* A message of n bytes
sha_bytes(n) == SubSeq([i \in 1..n |-> (i * 13 + 5) % 256], 1, n)

\* The messages hashed: the three of the tests, and one of each length around
\* the block size and around the room left for the length
ShaMessages ==
  {<<>>, MsgAbc, MsgNist56}
  \cup {sha_bytes(n) : n \in {1, 55, 63, 64, 65, 119, 120, MaxShaLen}}

\* The offsets of a message where one chunk may end and the next begin
SplitPoints(len) == {p \in {0, 1, 55, 64, 65, len} : p <= len}

\* A block index written with its low byte first
block_idx_low_first(n) ==
  <<n % 256, (n \div 256) % 256, (n \div 65536) % 256, (n \div 16777216) % 256>>

\* block_idx.to_be_bytes()
u32_to_be_bytes(n) ==
  <<(n \div 16777216) % 256, (n \div 65536) % 256, (n \div 256) % 256, n % 256>>

\* pbkdf2_hmac_sha256, "for _ in 1..iterations" with left iterations to run:
\* result after them
RECURSIVE pbkdf2_iterate(_, _, _, _)
pbkdf2_iterate(password, left, u_prev, acc) ==
  IF left <= 0 THEN acc
  ELSE The({pbkdf2_iterate(password, left - 1, u_next, XorBytes(acc, u_next))
            : u_next \in {hmac_sha256(password, u_prev)}})

\* pbkdf2_hmac_sha256, one pass of "for block_idx in 1..=blocks_needed": the
\* result appended to derived_key
pbkdf2_block(password, salt, iterations, block_idx) ==
  The({pbkdf2_iterate(password, iterations - 1, u_prev, u_prev)
       : u_prev \in {hmac_sha256(password, salt \o u32_to_be_bytes(block_idx))}})

\* derived_key after the passes block_idx..blocks_needed
RECURSIVE pbkdf2_blocks(_, _, _, _, _, _)
pbkdf2_blocks(password, salt, iterations, block_idx, blocks_needed, derived_key) ==
  IF block_idx > blocks_needed THEN derived_key
  ELSE The({pbkdf2_blocks(password, salt, iterations, block_idx + 1, blocks_needed, next)
            : next \in {derived_key \o pbkdf2_block(password, salt, iterations, block_idx)}})

pbkdf2_hmac_sha256(password, salt, iterations, key_len) ==
  SubSeq(pbkdf2_blocks(password, salt, iterations, 1,
                       (key_len + SHA256_OUTPUT_SIZE - 1) \div SHA256_OUTPUT_SIZE, <<>>),
         1, key_len)

\* The keys and messages of the hmac_sha256 tests (RFC 4231 cases 1 and 2)
KeyCase1 == Fill(20, 11)
DataCase1 == <<72, 105, 32, 84, 104, 101, 114, 101>>
KeyCase2 == <<74, 101, 102, 101>>
DataCase2 ==
  <<119, 104, 97, 116, 32, 100, 111, 32, 121, 97, 32, 119, 97, 110, 116, 32,
    102, 111, 114, 32, 110, 111, 116, 104, 105, 110, 103, 63>>

\* Keys of 0, 4, 20, 63, 64, 65 and 131 bytes; messages of 0, 8, 28 and 64 bytes
HmacKeys ==
  {<<>>, KeyCase1, KeyCase2, sha_bytes(SHA256_BLOCK_SIZE - 1), sha_bytes(SHA256_BLOCK_SIZE),
   sha_bytes(SHA256_BLOCK_SIZE + 1), Fill(131, 170)}
HmacMessages == {<<>>, DataCase1, DataCase2, sha_bytes(SHA256_BLOCK_SIZE)}

\* b"password" and b"salt" of the pbkdf2 tests
Password == <<112, 97, 115, 115, 119, 111, 114, 100>>
Salt == <<115, 97, 108, 116>>
KeyLens == {0, 1, 20, SHA256_OUTPUT_SIZE, SHA256_OUTPUT_SIZE + 1, MaxKeyLen}

InitSha == Quiet /\ run = RunIdle

\* Sha256::new(), for a message that will be fed to it; sha256(message) is the
\* digest of the message in one piece
ShaNew ==
  /\ run.pc = "idle"
  /\ \E message \in ShaMessages :
       run' = [pc |-> "sha", message |-> message, hs |-> Sha256_new, offset |-> 0,
               sizes |-> <<>>, compressed |-> <<>>, final_blocks |-> 0,
               digest |-> <<>>, single |-> sha256(message)]
  /\ UNCHANGED <<disk, pc, call, result, steps, saved, gcm>>

\* hasher.update(chunk), for the next chunk of the message: any chunk that
\* ends at a split point, the rest of the message in the last update
ShaUpdate ==
  /\ run.pc = "sha"
  /\ Len(run.sizes) < MaxChunks
  /\ \E to \in SplitPoints(Len(run.message)) :
       /\ to >= run.offset
       /\ Len(run.sizes) = MaxChunks - 1 => to = Len(run.message)
       /\ \E chunk \in {Slice(run.message, run.offset, to)} :
            run' = [run EXCEPT !.hs = Sha256_update(run.hs, chunk),
                               !.offset = to,
                               !.sizes = Append(@, Len(chunk)),
                               !.compressed = @ \o Flatten(update_blocks(run.hs, chunk))]
  /\ UNCHANGED <<disk, pc, call, result, steps, saved, gcm>>

\* hasher.finalize(), once the whole message was fed
ShaFinalize ==
  /\ run.pc = "sha"
  /\ run.offset = Len(run.message)
  /\ run' = [run EXCEPT !.pc = "sha_done",
                        !.digest = Sha256_finalize(run.hs),
                        !.final_blocks = Len(finalize_blocks(run.hs)),
                        !.compressed = @ \o Flatten(finalize_blocks(run.hs))]
  /\ UNCHANGED <<disk, pc, call, result, steps, saved, gcm>>

\* hmac_sha256(key, message)
HmacCall ==
  /\ run.pc = "idle"
  /\ \E key \in HmacKeys, message \in HmacMessages :
       run' = [pc |-> "hmac_done", key |-> key, message |-> message,
               mac |-> hmac_sha256(key, message)]
  /\ UNCHANGED <<disk, pc, call, result, steps, saved, gcm>>

\* pbkdf2_hmac_sha256(password, salt, iterations, key_len)
PbkdfCall ==
  /\ run.pc = "idle"
  /\ \E password \in {Password}, iterations \in 1..MaxIterations, key_len \in KeyLens :
       run' = [pc |-> "pbkdf_done", password |-> password, salt |-> Salt,
               iterations |-> iterations, key_len |-> key_len,
               derived_key |-> pbkdf2_hmac_sha256(password, Salt, iterations, key_len)]
  /\ UNCHANGED <<disk, pc, call, result, steps, saved, gcm>>

\* The caller takes the digest, the mac or the key
ShaDone ==
  /\ run.pc \in {"sha_done", "hmac_done", "pbkdf_done"}
  /\ run' = RunIdle
  /\ UNCHANGED <<disk, pc, call, result, steps, saved, gcm>>

NextSha == ShaNew \/ ShaUpdate \/ ShaFinalize \/ HmacCall \/ PbkdfCall \/ ShaDone

SpecSha == InitSha /\ [][NextSha]_vars

\* C17: however a message is cut into chunks, empty ones and ones that
\* straddle a 64-byte boundary included, new, one update per chunk and finalize
\* give the digest of the one-shot sha256, which is new, a single update with
\* the whole message and finalize
C17_ChunkingInvariant ==
  run.pc = "sha_done" =>
    /\ run.digest = run.single
    /\ Sum(run.sizes) = Len(run.message)

\* A message of 65 bytes was fed as an empty chunk, a chunk of 1 byte and a
\* chunk of 64 bytes that straddles the first block boundary
C17_Witness ==
  /\ run.pc = "sha_done"
  /\ run.sizes = <<0, 1, 64>>
  /\ run.digest = run.single

\* The padded message of FIPS 180-4: the message, 0x80, zeros up to 56 mod 64
\* and the length in bits as 64 bits big-endian
FipsPadded(m) ==
  m \o <<128>> \o Fill((119 - (Len(m) % 64)) % 64, 0)
    \o <<0, 0, 0, 0, 0, 0, (8 * Len(m)) \div 256, (8 * Len(m)) % 256>>

\* C18: what update and finalize compress is the message followed by the FIPS
\* 180-4 padding, of total length the smallest multiple of 64 that is at least
\* L + 9; finalize compresses two blocks exactly when L mod 64 >= 56 and one
\* otherwise; the digests of "", "abc" and the 56-byte message are the
\* published ones
C18_FipsPadding ==
  run.pc = "sha_done" =>
    /\ run.compressed = FipsPadded(run.message)
    /\ Len(run.compressed) % 64 = 0
    /\ Len(run.compressed) >= Len(run.message) + 9
    /\ Len(run.compressed) - 64 < Len(run.message) + 9
    /\ run.final_blocks = (IF Len(run.message) % 64 >= 56 THEN 2 ELSE 1)
    /\ run.message = <<>> =>
         run.digest = <<227, 176, 196, 66, 152, 252, 28, 20, 154, 251, 244,
                        200, 153, 111, 185, 36, 39, 174, 65, 228, 100, 155,
                        147, 76, 164, 149, 153, 27, 120, 82, 184, 85>>
    /\ run.message = MsgAbc =>
         run.digest = <<186, 120, 22, 191, 143, 1, 207, 234, 65, 65, 64,
                        222, 93, 174, 34, 35, 176, 3, 97, 163, 150, 23, 122,
                        156, 180, 16, 255, 97, 242, 0, 21, 173>>
    /\ run.message = MsgNist56 =>
         run.digest = <<36, 141, 106, 97, 210, 6, 56, 184, 229, 192, 38,
                        147, 12, 62, 96, 57, 163, 60, 228, 89, 100, 255, 33,
                        103, 246, 236, 237, 212, 25, 219, 6, 193>>

\* The 56-byte message was finalized: its padding took a block of its own
C18_Witness ==
  /\ run.pc = "sha_done"
  /\ run.message = MsgNist56
  /\ run.final_blocks = 2
  /\ Len(run.compressed) = 128

\* C19: hmac_sha256(key, message) is H((K' xor opad) || H((K' xor ipad) ||
\* message)) with ipad 0x36 and opad 0x5c 64 times, K' the digest of the key
\* zero-padded to 64 bytes for a key of more than 64 bytes and the key
\* zero-padded to 64 bytes otherwise; RFC 4231 cases 1 and 2 are reproduced
C19_HmacDefinition ==
  run.pc = "hmac_done" =>
    /\ \E k \in {IF Len(run.key) > 64 THEN sha256(run.key) \o Fill(32, 0)
                 ELSE run.key \o Fill(64 - Len(run.key), 0)} :
         run.mac = sha256(XorBytes(Fill(64, 92), k)
                          \o sha256(XorBytes(Fill(64, 54), k) \o run.message))
    /\ (run.key = KeyCase1 /\ run.message = DataCase1) =>
         run.mac = <<176, 52, 76, 97, 216, 219, 56, 83, 92, 168, 175, 206,
                     175, 11, 241, 43, 136, 29, 194, 0, 201, 131, 61, 167, 38,
                     233, 55, 108, 46, 50, 207, 247>>
    /\ (run.key = KeyCase2 /\ run.message = DataCase2) =>
         run.mac = <<91, 220, 193, 70, 191, 96, 117, 78, 106, 4, 36, 38, 8,
                     149, 117, 199, 90, 0, 63, 8, 157, 39, 57, 131, 157, 236,
                     88, 185, 100, 236, 56, 67>>

\* hmac_sha256 returned for a key of exactly 64 bytes
C19_Witness ==
  /\ run.pc = "hmac_done"
  /\ Len(run.key) = SHA256_BLOCK_SIZE
  /\ Len(run.mac) = SHA256_OUTPUT_SIZE
  /\ run.message = DataCase2

\* U_j of RFC 8018 for block i: U_1 = HMAC(password, salt || INT(i)),
\* U_j = HMAC(password, U_(j-1))
RECURSIVE RfcU(_, _, _, _)
RfcU(password, salt, i, j) ==
  IF j = 1 THEN hmac_sha256(password, salt \o <<0, 0, 0, i>>)
  ELSE hmac_sha256(password, RfcU(password, salt, i, j - 1))

\* T_i = U_1 xor ... xor U_c
RECURSIVE RfcT(_, _, _, _)
RfcT(password, salt, i, c) ==
  IF c = 1 THEN RfcU(password, salt, i, 1)
  ELSE XorBytes(RfcT(password, salt, i, c - 1), RfcU(password, salt, i, c))

\* T_1 || ... || T_n
RECURSIVE RfcBlocks(_, _, _, _)
RfcBlocks(password, salt, c, n) ==
  IF n = 0 THEN <<>>
  ELSE RfcBlocks(password, salt, c, n - 1) \o RfcT(password, salt, n, c)

\* The definition of the claim: exactly key_len bytes, T_1 || T_2 || ...
\* truncated, the same for the same inputs
PbkdfAsDefined ==
  /\ Len(run.derived_key) = run.key_len
  /\ run.derived_key =
       SubSeq(RfcBlocks(run.password, run.salt, run.iterations, (run.key_len + 31) \div 32),
              1, run.key_len)
  /\ run.derived_key =
       pbkdf2_hmac_sha256(run.password, run.salt, run.iterations, run.key_len)

\* C20 as stated: the definition, and for "password", "salt" and 20 bytes the
\* outputs that RFC 6070 lists for 1 and 2 iterations
C20_Rfc6070Outputs ==
  run.pc = "pbkdf_done" =>
    /\ PbkdfAsDefined
    /\ (run.password = Password /\ run.key_len = 20 /\ run.iterations = 1) =>
         run.derived_key = <<12, 96, 200, 15, 150, 31, 14, 113, 243, 169,
                             181, 36, 175, 96, 18, 6, 47, 224, 55, 166>>
    /\ (run.password = Password /\ run.key_len = 20 /\ run.iterations = 2) =>
         run.derived_key = <<234, 108, 1, 77, 199, 45, 111, 140, 205, 30,
                             217, 42, 206, 29, 65, 240, 216, 222, 137, 87>>

\* C20: pbkdf2_hmac_sha256 returns exactly key_len bytes, T_1 || T_2 || ...
\* truncated, with T_i the xor of U_1..U_iterations; the same inputs give the
\* same output; for the inputs of RFC 6070 ("password", "salt", 20 bytes, 1
\* and 2 iterations) it returns the PBKDF2-HMAC-SHA256 values of the tests
\* (RFC 6070 lists the HMAC-SHA1 ones)
C20_PbkdfDefinition ==
  run.pc = "pbkdf_done" =>
    /\ PbkdfAsDefined
    /\ (run.password = Password /\ run.key_len = 20 /\ run.iterations = 1) =>
         run.derived_key = <<18, 15, 182, 207, 252, 248, 179, 44, 67, 231,
                             34, 82, 86, 196, 248, 55, 168, 101, 72, 201>>
    /\ (run.password = Password /\ run.key_len = 20 /\ run.iterations = 2) =>
         run.derived_key = <<174, 77, 12, 149, 175, 107, 70, 211, 45, 10,
                             223, 249, 40, 240, 109, 208, 42, 48, 63, 142>>

\* A key of 33 bytes was derived with 2 iterations: two blocks, the second
\* truncated
C20_Witness ==
  /\ run.pc = "pbkdf_done"
  /\ run.iterations = 2
  /\ run.key_len = SHA256_OUTPUT_SIZE + 1
  /\ Len(run.derived_key) = SHA256_OUTPUT_SIZE + 1

-----------------------------------------------------------------------------
(* aes_encrypt_block (aes_gcm.rs 100-120), one step per call it makes *)

\* The key and the block of test_aes_encrypt_block_known, and the block it expects
NistKey == SubSeq([i \in 1..32 |-> i - 1], 1, 32)
NistPlain == SubSeq([i \in 1..16 |-> 17 * (i - 1)], 1, 16)
NistCipher == <<142, 162, 183, 202, 81, 103, 69, 191, 234, 252, 73, 144, 75, 73, 96, 137>>

AesKeys == {NistKey, Key1}
AesBlocks == {NistPlain, Fill(16, 0)}

InitAes == Quiet /\ run = RunIdle

\* let rk = key_expansion(&key); aes_encrypt_block(&plain, &rk): let mut state = *block
AesCall ==
  /\ run.pc = "idle"
  /\ \E key \in AesKeys, block \in AesBlocks :
       \E rk \in {key_expansion(key)} :
         run' = [pc |-> "xor_block", key |-> key, block |-> block, round_keys |-> rk,
                 state |-> block, round |-> 0, ops |-> <<>>, result |-> <<>>]
  /\ UNCHANGED <<disk, pc, call, result, steps, saved, gcm>>

\* xor_block(&mut state, &round_keys[round]), for round 0, 1..NR-1 and NR
AesAddRoundKey ==
  /\ run.pc = "xor_block"
  /\ run' = [run EXCEPT !.state = xor_block(run.state, run.round_keys[run.round + 1]),
                        !.ops = Append(run.ops, <<"AddRoundKey", run.round>>),
                        !.round = IF run.round < NR THEN run.round + 1 ELSE run.round,
                        !.pc = IF run.round < NR THEN "sub_bytes" ELSE "return"]
  /\ UNCHANGED <<disk, pc, call, result, steps, saved, gcm>>

\* sub_bytes(&mut state)
AesSubBytes ==
  /\ run.pc = "sub_bytes"
  /\ run' = [run EXCEPT !.state = sub_bytes(run.state),
                        !.ops = Append(run.ops, <<"SubBytes", run.round>>),
                        !.pc = "shift_rows"]
  /\ UNCHANGED <<disk, pc, call, result, steps, saved, gcm>>

\* shift_rows(&mut state): inside the loop mix_columns follows, after it xor_block
AesShiftRows ==
  /\ run.pc = "shift_rows"
  /\ run' = [run EXCEPT !.state = shift_rows(run.state),
                        !.ops = Append(run.ops, <<"ShiftRows", run.round>>),
                        !.pc = IF run.round < NR THEN "mix_columns" ELSE "xor_block"]
  /\ UNCHANGED <<disk, pc, call, result, steps, saved, gcm>>

\* mix_columns(&mut state)
AesMixColumns ==
  /\ run.pc = "mix_columns"
  /\ run' = [run EXCEPT !.state = mix_columns(run.state),
                        !.ops = Append(run.ops, <<"MixColumns", run.round>>),
                        !.pc = "xor_block"]
  /\ UNCHANGED <<disk, pc, call, result, steps, saved, gcm>>

\* state
AesReturn ==
  /\ run.pc = "return"
  /\ run' = [run EXCEPT !.result = run.state, !.pc = "done"]
  /\ UNCHANGED <<disk, pc, call, result, steps, saved, gcm>>

AesDone ==
  /\ run.pc = "done"
  /\ run' = RunIdle
  /\ UNCHANGED <<disk, pc, call, result, steps, saved, gcm>>

NextAes ==
  \/ AesCall \/ AesAddRoundKey \/ AesSubBytes \/ AesShiftRows \/ AesMixColumns
  \/ AesReturn \/ AesDone

SpecAes == InitAes /\ [][NextAes]_vars

\* The transformations of the AES-256 cipher in their order, each with the
\* round key it belongs to
CipherRounds ==
  <<<<"AddRoundKey", 0>>>>
  \o Flatten([r \in 1..13 |-> << <<"SubBytes", r>>, <<"ShiftRows", r>>,
                                 <<"MixColumns", r>>, <<"AddRoundKey", r>> >>])
  \o << <<"SubBytes", 14>>, <<"ShiftRows", 14>>, <<"AddRoundKey", 14>> >>

\* C21: aes_encrypt_block with the 15 round keys of key_expansion applies
\* AddRoundKey with round key 0, then 13 rounds of SubBytes, ShiftRows,
\* MixColumns and AddRoundKey with the round keys 1..13, then SubBytes, ShiftRows
\* and AddRoundKey with round key 14 and no MixColumns; for the key 00..1f and
\* the block 00112233445566778899aabbccddeeff it returns
\* 8ea2b7ca516745bfeafc49904b496089.
C21_AesEncryptBlock ==
  /\ run.pc # "idle" => Len(run.round_keys) = 15
  /\ run.pc = "done" =>
       /\ run.ops = CipherRounds
       /\ run.result = aes_encrypt_block(run.block, run.round_keys)
       /\ (run.key = NistKey /\ run.block = NistPlain) => run.result = NistCipher

\* aes_encrypt_block returned for the key and the block of the known-answer test
C21_Witness ==
  /\ run.pc = "done" /\ run.key = NistKey /\ run.block = NistPlain
  /\ Len(run.ops) = 56 /\ run.result = NistCipher

-----------------------------------------------------------------------------
(* history/ring.rs: HistoryRing                                             *)

\* Entries of the history: timestamp in seconds, content as a string; id tells
\* two entries of equal fields apart and is not a field of ClipboardEntry
RingEntry(id, timestamp, pinned, content) ==
  [id |-> id, timestamp |-> timestamp, entry_type |-> "Text",
   flags |-> [pinned |-> pinned], source_app |-> "test.exe", content |-> content]

\* ClipboardEntry::age_secs at the time now
age_secs(entry, now) == IF now - entry.timestamp > 0 THEN now - entry.timestamp ELSE 0

\* ClipboardEntry::content_equals
content_equals(a, b) == a.content = b.content /\ a.entry_type = b.entry_type

\* Vec::remove(i) and Vec::retain, i counted from 0
vec_remove(v, i) == SubSeq(v, 1, i) \o SubSeq(v, i + 2, Len(v))
retain_pinned(v) == SelectSeq(v, LAMBDA e : e.flags.pinned)

HistoryRing_new(capacity) == [entries |-> <<>>, capacity |-> capacity, dirty |-> FALSE]

\* The for loop of enforce_capacity: the highest i with entries[i] not pinned,
\* or -1 when the loop ends without a removal
last_unpinned(entries) ==
  LET free == {i \in 0..(Len(entries) - 1) : ~entries[i + 1].flags.pinned}
  IN IF free = {} THEN -1 ELSE CHOOSE i \in free : \A j \in free : j <= i

\* An enforce_capacity that removes the last entry, pinned or not
RECURSIVE enforce_capacity_any(_, _)
enforce_capacity_any(entries, capacity) ==
  IF Len(entries) > capacity
  THEN enforce_capacity_any(vec_remove(entries, Len(entries) - 1), capacity)
  ELSE entries

\* An enforce_capacity that never removes the entry at index 0
RECURSIVE enforce_capacity_keep_first(_, _)
enforce_capacity_keep_first(entries, capacity) ==
  IF Len(entries) > capacity /\ last_unpinned(entries) > 0
  THEN enforce_capacity_keep_first(vec_remove(entries, last_unpinned(entries)), capacity)
  ELSE entries

RECURSIVE enforce_capacity(_, _)
enforce_capacity(entries, capacity) ==
  IF Len(entries) > capacity /\ last_unpinned(entries) >= 0
  THEN enforce_capacity(vec_remove(entries, last_unpinned(entries)), capacity)
  ELSE entries

\* HistoryRing::push: the ring it leaves and the value it returns
HistoryRing_push(ring, entry) ==
  IF ring.entries # <<>> /\ content_equals(ring.entries[1], entry)
  THEN [ring |-> ring, ret |-> FALSE]
  ELSE [ring |-> [ring EXCEPT !.entries = enforce_capacity(<<entry>> \o ring.entries,
                                                           ring.capacity),
                              !.dirty = TRUE],
        ret |-> TRUE]

HistoryRing_remove(ring, index) ==
  IF index < Len(ring.entries)
  THEN [ring EXCEPT !.entries = vec_remove(ring.entries, index), !.dirty = TRUE]
  ELSE ring

HistoryRing_toggle_pin(ring, index) ==
  IF index < Len(ring.entries)
  THEN [ring EXCEPT !.entries[index + 1].flags.pinned = ~ring.entries[index + 1].flags.pinned,
                    !.dirty = TRUE]
  ELSE ring

\* A clear_unpinned that keeps nothing
clear_unpinned_all(ring) == [ring EXCEPT !.entries = <<>>, !.dirty = TRUE]

clear_unpinned(ring) == [ring EXCEPT !.entries = retain_pinned(ring.entries), !.dirty = TRUE]

clear_all(ring) == [ring EXCEPT !.entries = <<>>, !.dirty = TRUE]

apply_retention(ring, max_age_days, now) ==
  [ring EXCEPT !.entries = SelectSeq(ring.entries,
                             LAMBDA e : e.flags.pinned \/ age_secs(e, now) <= max_age_days * 86400),
               !.dirty = TRUE]

reset_dirty(ring) == [ring EXCEPT !.dirty = FALSE]

load_from(ring, entries) == [ring EXCEPT !.entries = entries, !.dirty = FALSE]

-----------------------------------------------------------------------------
(* HistoryRing under every order of its calls                               *)

\* HistoryRing::new is given a capacity of 1..MaxCapacity
MaxCapacity == 2
\* At most MaxPushes entries are pushed
MaxPushes == 2
\* The clock is read at MaxTicks + 1 different times
MaxTicks == 2

\* The time in seconds at the k-th reading: 0, one day, one day and k - 1 seconds
clock_at(k) == IF k = 0 THEN 0 ELSE 86400 + k - 1

RingContents == {"a", "b"}
\* retention_days as Settings clamps it (1..365)
RetentionDays == {1}

\* Entry lists that load_vault hands to load_from: none, one longer than every
\* capacity with all entries pinned, one with an unpinned entry first
LoadLists ==
  {<<>>,
   [i \in 1..(MaxCapacity + 1) |-> RingEntry(100 + i, 0, TRUE, "p")],
   <<RingEntry(101, 0, FALSE, "a"), RingEntry(102, 0, TRUE, "p")>>}

NoEntry == RingEntry(0, 0, FALSE, "")

InitRing == Quiet /\ run = RunIdle

\* What a call leaves for the properties: the call, the entries before it, the
\* entry or index it was given and the value it returned
Called(op, ring, entry, index, ret) ==
  [op |-> op, before |-> ring.entries, entry |-> entry, index |-> index, ret |-> ret]

\* HistoryRing::new(capacity)
RingNew ==
  /\ run.pc = "idle"
  /\ \E capacity \in 1..MaxCapacity :
       run' = [pc |-> "ring", ring |-> HistoryRing_new(capacity), fresh |-> TRUE,
               ticks |-> 0, pushes |-> 0,
               last |-> Called("new", HistoryRing_new(capacity), NoEntry, 0, FALSE)]
  /\ UNCHANGED <<disk, pc, call, result, steps, saved, gcm>>

\* history.load_from(entries), called on the ring that new returned (app.rs 128)
RingLoadFrom ==
  /\ run.pc = "ring" /\ run.fresh
  /\ \E entries \in LoadLists :
       run' = [run EXCEPT !.ring = load_from(run.ring, entries), !.fresh = FALSE,
                          !.last = Called("load_from", run.ring, NoEntry, 0, FALSE)]
  /\ UNCHANGED <<disk, pc, call, result, steps, saved, gcm>>

\* ring.push(ClipboardEntry::new(..)): the entry is new, stamped now, not pinned
RingPush ==
  /\ run.pc = "ring" /\ run.pushes < MaxPushes
  /\ \E content \in RingContents :
       LET entry == RingEntry(run.pushes + 1, clock_at(run.ticks), FALSE, content)
           r == HistoryRing_push(run.ring, entry)
       IN run' = [run EXCEPT !.ring = r.ring, !.fresh = FALSE, !.pushes = run.pushes + 1,
                             !.last = Called("push", run.ring, entry, 0, r.ret)]
  /\ UNCHANGED <<disk, pc, call, result, steps, saved, gcm>>

\* ring.remove(index), index in range or one past the end
RingRemove ==
  /\ run.pc = "ring"
  /\ \E index \in 0..Len(run.ring.entries) :
       run' = [run EXCEPT !.ring = HistoryRing_remove(run.ring, index), !.fresh = FALSE,
                          !.last = Called("remove", run.ring, NoEntry, index,
                                          index < Len(run.ring.entries))]
  /\ UNCHANGED <<disk, pc, call, result, steps, saved, gcm>>

\* ring.toggle_pin(index)
RingTogglePin ==
  /\ run.pc = "ring"
  /\ \E index \in 0..Len(run.ring.entries) :
       run' = [run EXCEPT !.ring = HistoryRing_toggle_pin(run.ring, index), !.fresh = FALSE,
                          !.last = Called("toggle_pin", run.ring, NoEntry, index,
                                          index < Len(run.ring.entries))]
  /\ UNCHANGED <<disk, pc, call, result, steps, saved, gcm>>

\* ring.clear_unpinned()
RingClearUnpinned ==
  /\ run.pc = "ring"
  /\ run' = [run EXCEPT !.ring = clear_unpinned(run.ring), !.fresh = FALSE,
                        !.last = Called("clear_unpinned", run.ring, NoEntry, 0, FALSE)]
  /\ UNCHANGED <<disk, pc, call, result, steps, saved, gcm>>

\* ring.clear_all()
RingClearAll ==
  /\ run.pc = "ring"
  /\ run' = [run EXCEPT !.ring = clear_all(run.ring), !.fresh = FALSE,
                        !.last = Called("clear_all", run.ring, NoEntry, 0, FALSE)]
  /\ UNCHANGED <<disk, pc, call, result, steps, saved, gcm>>

\* ring.apply_retention(max_age_days)
RingApplyRetention ==
  /\ run.pc = "ring"
  /\ \E max_age_days \in RetentionDays :
       run' = [run EXCEPT !.ring = apply_retention(run.ring, max_age_days, clock_at(run.ticks)),
                          !.fresh = FALSE,
                          !.last = Called("apply_retention", run.ring, NoEntry, 0, FALSE)]
  /\ UNCHANGED <<disk, pc, call, result, steps, saved, gcm>>

\* ring.reset_dirty()
RingResetDirty ==
  /\ run.pc = "ring"
  /\ run' = [run EXCEPT !.ring = reset_dirty(run.ring), !.fresh = FALSE,
                        !.last = Called("reset_dirty", run.ring, NoEntry, 0, FALSE)]
  /\ UNCHANGED <<disk, pc, call, result, steps, saved, gcm>>

\* Time passes between two calls
RingTick ==
  /\ run.pc = "ring" /\ run.ticks < MaxTicks
  /\ run' = [run EXCEPT !.ticks = run.ticks + 1,
                        !.last = Called("tick", run.ring, NoEntry, 0, FALSE)]
  /\ UNCHANGED <<disk, pc, call, result, steps, saved, gcm>>

NextRing ==
  \/ RingNew \/ RingLoadFrom \/ RingPush \/ RingRemove \/ RingTogglePin
  \/ RingClearUnpinned \/ RingClearAll \/ RingApplyRetention \/ RingResetDirty
  \/ RingTick

SpecRing == InitRing /\ [][NextRing]_vars

\* The elements of a sequence
Members(s) == {s[i] : i \in 1..Len(s)}

\* C26: push, clear_unpinned and apply_retention keep every entry that was
\* pinned before the call, still pinned; a pinned entry leaves the history only
\* through remove(index) or clear_all.
C26_PinnedProtected ==
  run.pc = "ring" =>
    /\ run.last.op \in {"push", "clear_unpinned", "apply_retention"} =>
         \A e \in Members(run.last.before) :
           e.flags.pinned => e \in Members(run.ring.entries)
    /\ run.last.op \notin {"remove", "clear_all"} =>
         \A e \in Members(run.last.before) :
           e.flags.pinned => \E f \in Members(run.ring.entries) : f.id = e.id

\* apply_retention kept a pinned entry older than the retention time and removed
\* an entry beside it
C26_Witness ==
  /\ run.pc = "ring" /\ run.last.op = "apply_retention"
  /\ \E e \in Members(run.last.before) : e.flags.pinned /\ age_secs(e, clock_at(run.ticks)) > 86400
  /\ Len(run.ring.entries) < Len(run.last.before)
  /\ run.ring.entries # <<>>

\* The entries of all at the positions that keep holds of, in their order
KeptOf(all, keep(_)) ==
  LET at == SelectSeq([i \in 1..Len(all) |-> i], keep)
  IN [j \in 1..Len(at) |-> all[at[j]]]

\* all without its n unpinned entries of highest index
WithoutOldestUnpinned(all, n) ==
  LET unpinned_to(i) == Cardinality({j \in 1..i : ~all[j].flags.pinned})
  IN KeptOf(all, LAMBDA i : all[i].flags.pinned
                            \/ unpinned_to(i) <= unpinned_to(Len(all)) - n)

\* C27: after a push that inserts, the history holds at most capacity entries
\* unless every entry left is pinned; the entries removed are the unpinned ones
\* of highest index; the entries left are in the order they had, the newest first.
C27_PushRotation ==
  (run.pc = "ring" /\ run.last.op = "push" /\ run.last.ret) =>
    LET all == <<run.last.entry>> \o run.last.before
        over == IF Len(all) > run.ring.capacity THEN Len(all) - run.ring.capacity ELSE 0
        free == Cardinality({j \in 1..Len(all) : ~all[j].flags.pinned})
    IN /\ \/ Len(run.ring.entries) <= run.ring.capacity
          \/ \A e \in Members(run.ring.entries) : e.flags.pinned
       /\ run.ring.entries = WithoutOldestUnpinned(all, IF over < free THEN over ELSE free)

\* A push into a full history whose oldest entry is pinned removed the unpinned
\* entry before it
C27_Witness ==
  /\ run.pc = "ring" /\ run.last.op = "push" /\ run.last.ret
  /\ run.ring.capacity = 2 /\ Len(run.last.before) = 2
  /\ ~run.last.before[1].flags.pinned /\ run.last.before[2].flags.pinned
  /\ run.ring.entries = <<run.last.entry, run.last.before[2]>>

\* C29: whenever HistoryRing::push returns true, the pushed entry is at index 0
\* of the history when push returns, also when the history is at capacity and
\* every entry in it is pinned.
C29_PushedIsFirst ==
  (run.pc = "ring" /\ run.last.op = "push" /\ run.last.ret) =>
    (run.ring.entries # <<>> /\ run.ring.entries[1] = run.last.entry)

-----------------------------------------------------------------------------
(* main.rs and app.rs: start, the handlers of the message loop, exit        *)

\* At most MaxPending WM_CLIPBOARDUPDATE messages wait in the queue
MaxPending == 2

\* The vault file as load_vault sees it: absent, written by save_vault with
\* this key, or anything else.  The entries of the file at the start are one
\* second older than a day, the retention time
NoFile == [kind |-> "absent", entries |-> <<>>]
GoodFile(entries) == [kind |-> "good", entries |-> entries]
CorruptFile == [kind |-> "corrupt", entries |-> <<>>]
AppFiles ==
  {NoFile, CorruptFile, GoodFile(<<>>),
   GoodFile(<<RingEntry(0, -86401, FALSE, "a"), RingEntry(0, -86401, TRUE, "b")>>)}

\* load_vault (vault.rs 92-157): an absent file is an empty history, a file
\* that fails a check is an error
load_vault_outcome(file) ==
  CASE file.kind = "absent" -> Ok(<<>>)
    [] file.kind = "good" -> Ok(file.entries)
    [] OTHER -> Err("Integrity")

\* A buffer that holds the master key: "unset" before it is filled, "live"
\* while it holds the key, "released" when its memory was given back with the
\* key in it, "zeroed" when it was overwritten with zero before that
NoKeys == [master_key |-> "unset", load_aes_key |-> "unset", save_aes_key |-> "unset"]

\* Drop of a Vec<u8> or a [u8; 32]: the memory is released as it is
drop_plain(buffer) == IF buffer = "live" THEN "released" ELSE buffer

\* Drop of a SecureBuf (secure_buf.rs 86-91): secure_zero, then the release
drop_secure(buffer) == IF buffer = "live" THEN "zeroed" ELSE buffer

\* A main that goes on to the message loop whatever App::new returned
main_ignores_error(ok) == "loop"

\* main (main.rs 38-51): Ok(app) => app.run(), Err(e) => std::process::exit(1)
main_after_new(ok) == IF ok THEN "loop" ELSE "exited"

\* The clipboard: who set it last and what it holds
EmptyClipboard == [origin |-> "none", content |-> ""]

NoHandler == [op |-> "none", ignored |-> FALSE, save_called |-> FALSE,
              was_synced |-> FALSE, changed |-> FALSE]

\* vault::save_vault as App::save_vault calls it: the file it leaves
\* (vault.rs 80-88; an error leaves the file as it was)
save_file(file, entries, outcome) == IF outcome = "ok" THEN GoodFile(entries) ELSE file

\* The 32-byte copy of save_vault (vault.rs 59-61), made after the nonce and
\* dropped at the return
save_key_copy(keys, outcome) ==
  IF outcome = "crypto" THEN keys ELSE [keys EXCEPT !.save_aes_key = drop_plain("live")]

SaveOutcomes == {"ok", "crypto", "storage"}

InitApp == Quiet /\ run = RunIdle

\* App::new (app.rs 112-143)
AppNew ==
  /\ run.pc = "idle"
  /\ \E file \in AppFiles, key_ok \in BOOLEAN :
       LET loaded == load_vault_outcome(file)
           ok == key_ok /\ loaded.ok
           history == IF ok THEN load_from(HistoryRing_new(MaxCapacity), loaded.value)
                      ELSE HistoryRing_new(MaxCapacity)
       IN run' = [pc |-> "new_returned", file |-> file, file0 |-> file,
                  new_ok |-> ok, entered_loop |-> FALSE,
                  history |-> history,
                  ignore_next_clipboard |-> FALSE,
                  clipboard |-> EmptyClipboard, pending |-> <<>>,
                  changed |-> FALSE,
                  keys |-> [master_key |-> IF ~key_ok THEN "unset"
                                           ELSE IF ok THEN "live" ELSE drop_plain("live"),
                            load_aes_key |-> IF key_ok /\ file.kind = "good"
                                             THEN drop_plain("live") ELSE "unset",
                            save_aes_key |-> "unset"],
                  last |-> [NoHandler EXCEPT !.op = "new"]]
  /\ UNCHANGED <<disk, pc, call, result, steps, saved, gcm>>

\* main (main.rs 38-51): run() registers the window and enters message_loop
Main ==
  /\ run.pc = "new_returned"
  /\ run' = [run EXCEPT !.pc = main_after_new(run.new_ok),
                        !.entered_loop = (main_after_new(run.new_ok) = "loop"),
                        !.last = [NoHandler EXCEPT !.op = "main"]]
  /\ UNCHANGED <<disk, pc, call, result, steps, saved, gcm>>

\* Another application sets the clipboard; the system queues WM_CLIPBOARDUPDATE
ForeignCopy ==
  /\ run.pc = "loop" /\ Len(run.pending) < MaxPending
  /\ \E content \in RingContents, origin \in {"foreign", "excluded", "oversize"} :
       run' = [run EXCEPT !.clipboard = [origin |-> origin, content |-> content],
                          !.pending = Append(run.pending, "foreign"),
                          !.last = NoHandler]
  /\ UNCHANGED <<disk, pc, call, result, steps, saved, gcm>>

\* The history after a handler, with the mark of a change of the entries
Changed(history) == run.changed \/ history.entries # run.history.entries

\* on_clipboard_update (app.rs 276-299)
OnClipboardUpdate ==
  /\ run.pc = "loop" /\ run.pending # <<>>
  /\ LET history ==
           IF run.ignore_next_clipboard \/ run.clipboard.origin \notin {"foreign", "own"}
           THEN run.history
           ELSE HistoryRing_push(run.history,
                  RingEntry(0, clock_at(0), FALSE, run.clipboard.content)).ring
     IN run' = [run EXCEPT !.pending = Tail(run.pending),
                           !.ignore_next_clipboard = FALSE,
                           !.history = history,
                           !.changed = Changed(history),
                           !.last = [NoHandler EXCEPT !.op = "on_clipboard_update",
                                                      !.ignored = run.ignore_next_clipboard]]
  /\ UNCHANGED <<disk, pc, call, result, steps, saved, gcm>>

\* set_clipboard_text (injector.rs 33-77) after ignore_next_clipboard = true:
\* it sets the clipboard, or OpenClipboard fails and nothing changes, or it
\* fails after EmptyClipboard
Inject(index, outcome) ==
  [run EXCEPT !.ignore_next_clipboard = TRUE,
              !.clipboard = CASE outcome = "ok" ->
                                   [origin |-> "own",
                                    content |-> run.history.entries[index + 1].content]
                              [] outcome = "emptied" -> EmptyClipboard
                              [] OTHER -> run.clipboard,
              !.pending = IF outcome = "open_failed" THEN run.pending
                          ELSE Append(run.pending, "own")]

InjectOutcomes == {"ok", "open_failed", "emptied"}

\* on_select (app.rs 328-360)
OnSelect ==
  /\ run.pc = "loop" /\ Len(run.pending) < MaxPending
  /\ \E index \in 0..Len(run.history.entries), outcome \in InjectOutcomes :
       run' = [(IF index < Len(run.history.entries) THEN Inject(index, outcome) ELSE run)
               EXCEPT !.last = NoHandler]
  /\ UNCHANGED <<disk, pc, call, result, steps, saved, gcm>>

\* wndproc_manager, VK_RETURN outside the edit mode (app.rs 877-888)
ManagerEnter ==
  /\ run.pc = "loop" /\ Len(run.pending) < MaxPending
  /\ \E index \in 0..Len(run.history.entries), outcome \in InjectOutcomes :
       run' = [(IF index < Len(run.history.entries) THEN Inject(index, outcome) ELSE run)
               EXCEPT !.last = NoHandler]
  /\ UNCHANGED <<disk, pc, call, result, steps, saved, gcm>>

\* wndproc_manager, VK_RETURN in the edit mode (app.rs 780-786)
ManagerConfirmEdit ==
  /\ run.pc = "loop"
  /\ \E idx \in 0..Len(run.history.entries), new_content \in RingContents :
       LET history == IF idx < Len(run.history.entries)
                      THEN [run.history EXCEPT !.entries[idx + 1].content = new_content]
                      ELSE run.history
       IN run' = [run EXCEPT !.history = history, !.changed = Changed(history),
                             !.last = NoHandler]
  /\ UNCHANGED <<disk, pc, call, result, steps, saved, gcm>>

\* on_delete (app.rs 363-374)
OnDelete ==
  /\ run.pc = "loop"
  /\ \E idx \in 0..Len(run.history.entries) :
       LET history == HistoryRing_remove(run.history, idx)
       IN run' = [run EXCEPT !.history = history, !.changed = Changed(history),
                             !.last = NoHandler]
  /\ UNCHANGED <<disk, pc, call, result, steps, saved, gcm>>

\* on_toggle_pin (app.rs 377-388)
OnTogglePin ==
  /\ run.pc = "loop"
  /\ \E idx \in 0..Len(run.history.entries) :
       LET history == HistoryRing_toggle_pin(run.history, idx)
       IN run' = [run EXCEPT !.history = history, !.changed = Changed(history),
                             !.last = NoHandler]
  /\ UNCHANGED <<disk, pc, call, result, steps, saved, gcm>>

\* on_tray_message, TRAY_CMD_CLEAR (app.rs 412-415)
TrayClear ==
  /\ run.pc = "loop"
  /\ LET history == clear_unpinned(run.history)
     IN run' = [run EXCEPT !.history = history, !.changed = Changed(history),
                           !.last = NoHandler]
  /\ UNCHANGED <<disk, pc, call, result, steps, saved, gcm>>

\* on_timer (app.rs 440-448): save_vault and reset_dirty when is_dirty, then
\* apply_retention
OnTimer ==
  /\ run.pc = "loop"
  /\ \E outcome \in SaveOutcomes, retention_days \in RetentionDays :
       LET dirty == run.history.dirty
           after_save == IF dirty THEN reset_dirty(run.history) ELSE run.history
       IN run' = [run EXCEPT
                    !.file = IF dirty THEN save_file(run.file, run.history.entries, outcome)
                             ELSE run.file,
                    !.keys = IF dirty THEN save_key_copy(run.keys, outcome) ELSE run.keys,
                    !.history = apply_retention(after_save, retention_days,
                                                clock_at(0)),
                    !.changed = FALSE,
                    !.last = [NoHandler EXCEPT !.op = "on_timer",
                                               !.save_called = dirty,
                                               !.was_synced = (run.history.entries = run.file.entries),
                                               !.changed = run.changed]]
  /\ UNCHANGED <<disk, pc, call, result, steps, saved, gcm>>

\* wndproc_main, WM_ENDSESSION (app.rs 594-597): save_vault
OnEndSession ==
  /\ run.pc = "loop"
  /\ \E outcome \in SaveOutcomes :
       run' = [run EXCEPT
                 !.file = save_file(run.file, run.history.entries, outcome),
                 !.keys = save_key_copy(run.keys, outcome),
                 !.last = NoHandler]
  /\ UNCHANGED <<disk, pc, call, result, steps, saved, gcm>>

\* save_and_quit (app.rs 504-508), then cleanup (520-547) when the loop has
\* ended, then main drops the App
Quit ==
  /\ run.pc = "loop"
  /\ \E first \in SaveOutcomes, second \in SaveOutcomes :
       LET file1 == save_file(run.file, run.history.entries, first)
           keys2 == save_key_copy(save_key_copy(run.keys, first), second)
       IN run' = [run EXCEPT
                    !.pc = "exited",
                    !.file = save_file(file1, run.history.entries, second),
                    !.keys = [keys2 EXCEPT !.master_key = drop_plain(keys2.master_key)],
                    !.last = NoHandler]
  /\ UNCHANGED <<disk, pc, call, result, steps, saved, gcm>>

\* The start, the timer, the saves and the handlers that change the entries in
\* the history; the clipboard is left to NextClip
NextApp ==
  \/ AppNew \/ Main
  \/ ManagerConfirmEdit \/ OnDelete \/ OnTogglePin
  \/ TrayClear \/ OnTimer \/ OnEndSession \/ Quit

SpecApp == InitApp /\ [][NextApp]_vars

\* The start, the clipboard notifications and the handlers that set the clipboard
NextClip ==
  \/ AppNew \/ Main \/ ForeignCopy \/ OnClipboardUpdate \/ OnSelect \/ ManagerEnter

SpecClip == InitApp /\ [][NextClip]_vars

\* C22: every buffer that holds bytes of the master key (the key that
\* load_or_create_master_key returns and App stores, the 32-byte copies of
\* load_vault and save_vault) is overwritten with zero before its memory is
\* released.
C22_KeyBuffersZeroed ==
  run.pc # "idle" =>
    \A buffer \in {"master_key", "load_aes_key", "save_aes_key"} :
      run.keys[buffer] # "released"

\* C23: when load_vault fails at the start, App::new returns the error, the
\* process exits without entering the message loop and the vault file stays as
\* it was; the application does not go on with an empty history.
C23_FailedLoadExits ==
  (run.pc # "idle" /\ ~run.new_ok) =>
    /\ run.pc \in {"new_returned", "exited"}
    /\ ~run.entered_loop
    /\ run.file = run.file0

\* The process has exited after load_vault refused a file that fails its checks
C23_Witness ==
  /\ run.pc = "exited" /\ ~run.new_ok /\ run.last.op = "main"
  /\ run.file0 = CorruptFile /\ run.file = CorruptFile
  /\ run.keys.master_key # "unset"

\* C24: whenever is_dirty() is false, the entries in memory are the entries of
\* the last successful save or load.
C24_CleanMeansSaved ==
  (run.pc = "loop" /\ ~run.history.dirty) => run.history.entries = run.file.entries

\* C25: a tick of the autosave timer calls save_vault only if the entries were
\* changed since the tick before it or differ from the entries last saved or
\* loaded.
C25_TickSavesOnlyChanges ==
  (run.pc = "loop" /\ run.last.op = "on_timer" /\ run.last.save_called) =>
    (run.last.changed \/ ~run.last.was_synced)

\* C28: ignore_next_clipboard skips a notification only when the application's
\* own injection caused it, and what another, non-excluded application sets is
\* captured: when a notification has been skipped and none is waiting, what
\* such an application left on the clipboard is the newest entry of the history.
C28_OnlyOwnInjectionSkipped ==
  (run.pc = "loop" /\ run.last.op = "on_clipboard_update" /\ run.last.ignored
   /\ run.pending = <<>> /\ run.clipboard.origin = "foreign") =>
    (run.history.entries # <<>>
     /\ run.history.entries[1].content = run.clipboard.content)

====
